---- MODULE Spec2Model ----
(***************************************************************************)
(* K4Skatt: IBKR trade export -> Swedish K4 report and SRU filing.         *)
(* Model of src/src/k4_script.py (load, convert_to_sek, process_trades,    *)
(* group_partial_executions, main) and of the file writes of              *)
(* src/src/sru_generator.py.                                               *)
(*                                                                         *)
(* Conventions                                                             *)
(*  - a pandas DataFrame is a sequence of records; the row at position i   *)
(*    has index label i (load_trades leaves the default RangeIndex).       *)
(*  - text that the code searches (Notes/Codes, Description) is a sequence *)
(*    of one-character strings, so that `in` / str.contains / endswith are *)
(*    real substring searches.                                             *)
(*  - FX rates are multiples of 0.5 and are stored doubled (rate 10.5 is   *)
(*    21); IBKRPnL and 'Diff vs IBKR', the two float columns, are stored   *)
(*    doubled as well (unit: half a krona).                                *)
(***************************************************************************)
EXTENDS Integers, Sequences, FiniteSets, TLC

VARIABLES
    pc,               \* position in main()
    columns,          \* column names present in the input file
    config,           \* the loaded configuration (fx_rates, personal)
    no_sru,           \* args.no_sru
    input_file,       \* the rows of the input CSV file
    trades,           \* load_trades() result: the raw table
    trades_sek,       \* convert_to_sek() result: the converted table
    trades_to_report, \* process_trades: index of the frame that is iterated
    result,           \* process_trades() result
    grouped_result,   \* group_partial_executions() result
    files,            \* names of the output files written so far
    info_lines,       \* the lines written to INFO.SRU
    sru_lines,        \* the lines written to BLANKETTER.SRU
    log,              \* the records passed to the logger by process_trades
                      \* and by the SRU generator
    error             \* the error reported by the run, NoError if none

vars == <<pc, columns, config, no_sru, input_file, trades, trades_sek, trades_to_report,
          result, grouped_result, files, info_lines, sru_lines, log, error>>

\* Longest input table explored.
MaxTrades == 2

\* Largest number of section A rows and of section D rows in a table passed
\* to the SRU generator (three blanketts each).
MaxStandard == 19

MaxDesignated == 15

\* Largest number of rows of each section in the tables passed to the SRU
\* generator together with every shape of the personal section.
MaxConfigRows == 2

\* Longest label of a row passed to the SRU generator.
MaxLabel == 95

\* Longest table of deliveries and option legs explored for the matching.
MaxLegTrades == 3

\* Largest number of rows beyond TEST_LIMIT, and largest number of section
\* D rows, in the tables of about TEST_LIMIT rows.
MaxOverLimit == 8

MaxLimitDesignated == 5

NoError == [kind |-> "none", detail |-> <<>>]
NoTable == <<>>

(***************************************************************************)
(* Integer and text helpers                                                *)
(***************************************************************************)
Abs(x) == IF x < 0 THEN -x ELSE x

Max(a, b) == IF a >= b THEN a ELSE b

Min(a, b) == IF a <= b THEN a ELSE b

Range(s) == {s[i] : i \in DOMAIN s}

\* Python `sub in s` / pandas str.contains for a literal pattern.
Contains(s, sub) ==
    \E i \in 1..(Len(s) - Len(sub) + 1) : SubSeq(s, i, i + Len(sub) - 1) = sub

\* Python s.endswith(sub)
EndsWith(s, sub) ==
    /\ Len(s) >= Len(sub)
    /\ SubSeq(s, Len(s) - Len(sub) + 1, Len(s)) = sub

\* the elements of a set of integers as an ascending sequence (the order in
\* which boolean-mask selection keeps the rows of a frame)
RECURSIVE AscSeq(_)
AscSeq(S) ==
    IF S = {} THEN <<>>
    ELSE LET m == CHOOSE x \in S : \A y \in S : x <= y
         IN  <<m>> \o AscSeq(S \ {m})

(***************************************************************************)
(* Text values                                                             *)
(***************************************************************************)
CodeNone == <<>>
CodeEx   == <<"E", "x">>
CodeA    == <<"A">>
CodeP    == <<"P">>
CodeExP  == <<"E", "x", ";", "P">>
CodeAP   == <<"A", ";", "P">>
CodeEp   == <<"E", "p">>
CodeAEx  == <<"A", "E", "x">>

\* Description of the stock with ticker sym
StockDesc(sym) == <<sym>>

\* Description of an option on sym: "<sym> C" or "<sym> P"
OptionDesc(sym, right) == <<sym, " ", right>>

(***************************************************************************)
(* contains_code, is_put_option                                            *)
(***************************************************************************)
\* the regular expression 'Ex|A' of process_trades
ExerciseAssigned(code) == Contains(code, CodeEx) \/ Contains(code, CodeA)

is_put_option(description) ==
    \/ Contains(description, <<" ", "P", " ">>)
    \/ EndsWith(description, <<" ", "P">>)

(***************************************************************************)
(* convert_to_sek                                                          *)
(***************************************************************************)
\* round() of n/2 to the nearest integer, ties to the even one (numpy)
RoundHalf(n) ==
    LET f == n \div 2
    IN  IF n % 2 = 0 THEN f
        ELSE IF f % 2 = 0 THEN f ELSE f + 1

\* first occurrences of the elements of s, in order (pandas unique())
RECURSIVE Unique(_)
Unique(s) ==
    IF s = <<>> THEN <<>>
    ELSE LET init == Unique(SubSeq(s, 1, Len(s) - 1))
             x    == s[Len(s)]
         IN  IF x \in Range(init) THEN init ELSE Append(init, x)

\* fault: only the first row without a rate is reported
missing_fx_mutant(df, fx_rates) ==
    LET bad == SelectSeq(df, LAMBDA r : r.CurrencyPrimary \notin DOMAIN fx_rates)
    IN  IF bad = <<>> THEN <<>> ELSE <<bad[1].CurrencyPrimary>>

\* result_df[result_df['FX'].isna()]['CurrencyPrimary'].unique()
missing_fx(df, fx_rates) ==
    LET bad == SelectSeq(df, LAMBDA r : r.CurrencyPrimary \notin DOMAIN fx_rates)
    IN  Unique([i \in DOMAIN bad |-> bad[i].CurrencyPrimary])

\* fault: abs() applied to cost basis and proceeds as well
ConvertRowMutant(r, fx) ==
    [FX         |-> fx,
     Commission |-> RoundHalf(Abs(r.IBCommission) * fx),
     CostBasis  |-> RoundHalf(Abs(r.CostBasis) * fx),
     Proceeds   |-> RoundHalf(Abs(r.Proceeds) * fx),
     IBKRPnL    |-> r.FifoPnlRealized * fx] @@ r

\* lines 204-207 for one row; fx is the doubled rate
ConvertRow(r, fx) ==
    [FX         |-> fx,
     Commission |-> RoundHalf(Abs(r.IBCommission) * fx),
     CostBasis  |-> RoundHalf(r.CostBasis * fx),
     Proceeds   |-> RoundHalf(r.Proceeds * fx),
     IBKRPnL    |-> r.FifoPnlRealized * fx] @@ r

\* the frame convert_to_sek returns when every currency has a rate
convert_to_sek(df, fx_rates) ==
    [i \in DOMAIN df |-> ConvertRow(df[i], fx_rates[df[i].CurrencyPrimary])]

(***************************************************************************)
(* create_result_entry, process_standard_trade                             *)
(***************************************************************************)
\* fault: forlust = abs(net_pnl)
create_result_entry_mutant(row, forsaljningspris, omkostnadsbelopp) ==
    LET net_pnl == forsaljningspris - omkostnadsbelopp
    IN  [Antal            |-> row.Antal,
         Beteckning       |-> row.Beteckning,
         Symbol           |-> row.Symbol,
         Forsaljningspris |-> forsaljningspris,
         Omkostnadsbelopp |-> omkostnadsbelopp,
         Vinst            |-> Max(0, net_pnl),
         Forlust          |-> Abs(net_pnl),
         IBKRPnL          |-> row.IBKRPnL,
         DiffVsIBKR       |-> 2 * net_pnl - row.IBKRPnL]

create_result_entry(row, forsaljningspris, omkostnadsbelopp) ==
    LET net_pnl == forsaljningspris - omkostnadsbelopp
    IN  [Antal            |-> row.Antal,
         Beteckning       |-> row.Beteckning,
         Symbol           |-> row.Symbol,
         Forsaljningspris |-> forsaljningspris,
         Omkostnadsbelopp |-> omkostnadsbelopp,
         Vinst            |-> Max(0, net_pnl),
         Forlust          |-> Max(0, -net_pnl),
         IBKRPnL          |-> row.IBKRPnL,
         \* round(net_pnl - IBKRPnL, 2), in half kronor
         DiffVsIBKR       |-> 2 * net_pnl - row.IBKRPnL]

\* fault: the commission is left out of the cost
process_standard_trade_mutant(row) ==
    LET is_sell == row.BuySell = "SELL"
        forsaljningspris == IF is_sell THEN row.Proceeds ELSE Abs(row.CostBasis)
        omkostnadsbelopp == IF is_sell THEN Abs(row.CostBasis) ELSE Abs(row.Proceeds)
    IN  create_result_entry(row, forsaljningspris, omkostnadsbelopp)

process_standard_trade(row) ==
    LET is_sell == row.BuySell = "SELL"
        forsaljningspris == IF is_sell THEN row.Proceeds ELSE Abs(row.CostBasis)
        omkostnadsbelopp ==
            (IF is_sell THEN Abs(row.CostBasis) ELSE Abs(row.Proceeds)) + row.Commission
    IN  create_result_entry(row, forsaljningspris, omkostnadsbelopp)

(***************************************************************************)
(* find_related_options and the four handlers                              *)
(***************************************************************************)
\* process_trades: exercise_assigned_set, the index labels whose code
\* matches 'Ex|A'
ExerciseAssignedSet(df) == {i \in DOMAIN df : ExerciseAssigned(df[i].NotesCodes)}

\* fault: the rows come back last row first
find_related_options_mutant(df, date, exercise_assigned_set) ==
    LET asc == AscSeq({i \in DOMAIN df : /\ df[i].TradeDate = date
                                         /\ df[i].AssetClass = "OPT"
                                         /\ i \in exercise_assigned_set})
    IN  [k \in DOMAIN asc |-> asc[Len(asc) + 1 - k]]

\* the index labels of df[mask], in table order
find_related_options(df, date, exercise_assigned_set) ==
    AscSeq({i \in DOMAIN df : /\ df[i].TradeDate = date
                               /\ df[i].AssetClass = "OPT"
                               /\ i \in exercise_assigned_set})

\* related_options[(BuySell == side) & Notes/Codes.str.contains(code) &
\* (is_put_option(Description) == put)], as index labels in table order
MatchingLegs(df, related_options, side, code, put) ==
    SelectSeq(related_options,
              LAMBDA i : /\ df[i].BuySell = side
                         /\ Contains(df[i].NotesCodes, code)
                         /\ is_put_option(df[i].Description) = put)

\* the fallback branch shared by the four handlers ("treating as normal trade")
HandlerFallback(row) ==
    create_result_entry(row, row.Proceeds, Abs(row.CostBasis) + row.Commission)

exercised_calls(df, related_options) ==
    MatchingLegs(df, related_options, "SELL", CodeEx, FALSE)

exercised_puts(df, related_options) ==
    MatchingLegs(df, related_options, "SELL", CodeEx, TRUE)

assigned_calls(df, related_options) ==
    MatchingLegs(df, related_options, "BUY", CodeA, FALSE)

assigned_puts(df, related_options) ==
    MatchingLegs(df, related_options, "BUY", CodeA, TRUE)

\* fault: abs() of the stock's own cost basis as sale proceeds
handle_long_call_exercise_mutant(row, df, related_options) ==
    LET legs == exercised_calls(df, related_options)
    IN  IF legs # <<>>
        THEN create_result_entry(row, Abs(row.CostBasis),
                 Abs(row.Proceeds) + Abs(df[legs[1]].CostBasis) + row.Commission)
        ELSE HandlerFallback(row)

handle_long_call_exercise(row, df, related_options) ==
    LET legs == exercised_calls(df, related_options)
    IN  IF legs # <<>>
        THEN LET forsaljningspris == row.CostBasis
                 stock_cost       == Abs(row.Proceeds)
                 option_premium   == Abs(df[legs[1]].CostBasis)
             IN  create_result_entry(row, forsaljningspris,
                                     stock_cost + option_premium + row.Commission)
        ELSE HandlerFallback(row)

handle_long_put_exercise(row, df, related_options) ==
    LET legs == exercised_puts(df, related_options)
    IN  IF legs # <<>>
        THEN LET forsaljningspris == row.Proceeds
                 stock_cost       == Abs(row.CostBasis)
                 option_premium   == Abs(df[legs[1]].CostBasis)
             IN  create_result_entry(row, forsaljningspris,
                                     stock_cost + option_premium + row.Commission)
        ELSE HandlerFallback(row)

\* fault: the premium is added as abs() instead of subtracted signed
handle_short_call_assignment_mutant(row, df, related_options) ==
    LET legs == assigned_calls(df, related_options)
    IN  IF legs # <<>>
        THEN create_result_entry(row, row.Proceeds,
                 Abs(row.CostBasis) + Abs(df[legs[1]].CostBasis) + row.Commission)
        ELSE HandlerFallback(row)

handle_short_call_assignment(row, df, related_options) ==
    LET legs == assigned_calls(df, related_options)
    IN  IF legs # <<>>
        THEN LET forsaljningspris == row.Proceeds
                 stock_cost       == Abs(row.CostBasis)
                 option_premium   == df[legs[1]].CostBasis
             IN  create_result_entry(row, forsaljningspris,
                                     stock_cost - option_premium + row.Commission)
        ELSE HandlerFallback(row)

handle_short_put_assignment(row, df, related_options) ==
    LET legs == assigned_puts(df, related_options)
    IN  IF legs # <<>>
        THEN LET forsaljningspris == row.CostBasis
                 stock_cost       == Abs(row.Proceeds)
                 option_premium   == df[legs[1]].CostBasis
             IN  create_result_entry(row, forsaljningspris,
                                     stock_cost - option_premium + row.Commission)
        ELSE HandlerFallback(row)

\* which branch of process_exercise_assignment a stock delivery takes
Dispatch(row) ==
    CASE row.BuySell = "BUY"  /\ Contains(row.NotesCodes, CodeEx) -> "long_call"
      [] row.BuySell = "SELL" /\ Contains(row.NotesCodes, CodeEx) -> "long_put"
      [] row.BuySell = "SELL" /\ Contains(row.NotesCodes, CodeA)  -> "short_call"
      [] row.BuySell = "BUY"  /\ Contains(row.NotesCodes, CodeA)  -> "short_put"
      [] OTHER -> "unknown"

process_exercise_assignment(row, df, exercise_assigned_set) ==
    LET related_options ==
            find_related_options(df, row.TradeDate, exercise_assigned_set)
        branch == Dispatch(row)
    IN  CASE branch = "long_call"  -> handle_long_call_exercise(row, df, related_options)
          [] branch = "long_put"   -> handle_long_put_exercise(row, df, related_options)
          [] branch = "short_call" -> handle_short_call_assignment(row, df, related_options)
          [] branch = "short_put"  -> handle_short_put_assignment(row, df, related_options)
          [] OTHER -> process_standard_trade(row)

\* the option leg whose CostBasis the handler of a stock delivery reads
\* (<filtered frame>['CostBasis'].iloc[0]); 0 when the handler falls back
SelectedLeg(row, df, exercise_assigned_set) ==
    LET related_options ==
            find_related_options(df, row.TradeDate, exercise_assigned_set)
        branch == Dispatch(row)
        legs == CASE branch = "long_call"  -> exercised_calls(df, related_options)
                  [] branch = "long_put"   -> exercised_puts(df, related_options)
                  [] branch = "short_call" -> assigned_calls(df, related_options)
                  [] branch = "short_put"  -> assigned_puts(df, related_options)
                  [] OTHER -> <<>>
    IN  IF legs # <<>> THEN legs[1] ELSE 0

(***************************************************************************)
(* process_trades                                                          *)
(***************************************************************************)
\* trades_df['Antal'] = |Quantity|; trades_df['Beteckning'] = Description
WithReportColumns(trades_df) ==
    [i \in DOMAIN trades_df |->
        [Antal |-> Abs(trades_df[i].Quantity),
         Beteckning |-> trades_df[i].Description] @@ trades_df[i]]

\* mask_close & (mask_profit | mask_stock_ex_a)
ReportMask(df, i) ==
    /\ df[i].OpenCloseIndicator = "C"
    /\ \/ df[i].IBKRPnL # 0
       \/ df[i].AssetClass = "STK" /\ ExerciseAssigned(df[i].NotesCodes)

\* fault: exercised/assigned option rows are not skipped
SkipMaskMutant(df, i) == FALSE
\* skip_mask: option rows carrying an exercise/assignment code
SkipMask(df, i) ==
    /\ df[i].AssetClass = "OPT"
    /\ i \in ExerciseAssignedSet(df)

\* trades_to_report.index after the skip mask is applied
ReportIndex(df) ==
    AscSeq({i \in DOMAIN df : ReportMask(df, i) /\ ~SkipMask(df, i)})

\* one iteration of the loop over trades_to_report
ResultRow(df, idx) ==
    LET row == df[idx]
        res == IF row.AssetClass = "STK" /\ idx \in ExerciseAssignedSet(df)
               THEN process_exercise_assignment(row, df, ExerciseAssignedSet(df))
               ELSE process_standard_trade(row)
    IN  [BuySell |-> row.BuySell, TradeDate |-> row.TradeDate,
         NotesCodes |-> row.NotesCodes] @@ res

process_trades(trades_df) ==
    LET df == WithReportColumns(trades_df)
        index == ReportIndex(df)
    IN  [k \in DOMAIN index |-> ResultRow(df, index[k])]

\* a record passed to the logger: level, text, the values formatted into
\* the text, and the index label of the trade being processed (0 if none).
\* DEBUG records are shown only with --verbose.
LogRecord(level, msg, detail, row) ==
    [level |-> level, msg |-> msg, detail |-> detail, row |-> row]

\* the record a handler (or the dispatcher's else branch) logs about the
\* outcome of the matching for the stock delivery at index label idx
matching_log(df, idx) ==
    LET row    == df[idx]
        branch == Dispatch(row)
        leg    == SelectedLeg(row, df, ExerciseAssignedSet(df))
    IN  CASE branch = "unknown" ->
               LogRecord("DEBUG", "Unknown exercise/assignment pattern", <<>>, idx)
          [] branch = "long_call" /\ leg = 0 ->
               LogRecord("DEBUG", "Unknown call exercise pattern - treating as normal trade",
                         <<>>, idx)
          [] branch = "long_put" /\ leg = 0 ->
               LogRecord("DEBUG", "Unknown put exercise pattern - treating as normal trade",
                         <<>>, idx)
          [] branch = "short_call" /\ leg = 0 ->
               LogRecord("DEBUG", "Unknown call assignment pattern - treating as normal trade",
                         <<>>, idx)
          [] branch = "short_put" /\ leg = 0 ->
               LogRecord("DEBUG", "Unknown put assignment pattern - treating as normal trade",
                         <<>>, idx)
          [] branch = "long_call" ->
               LogRecord("DEBUG", "LONG CALL EXERCISE (BUY stock, SELL option)", <<>>, idx)
          [] branch = "long_put" ->
               LogRecord("DEBUG", "LONG PUT EXERCISE (SELL stock, SELL option)", <<>>, idx)
          [] branch = "short_call" ->
               LogRecord("DEBUG", "SHORT CALL ASSIGNMENT (SELL stock, BUY option)", <<>>, idx)
          [] OTHER ->
               LogRecord("DEBUG", "SHORT PUT ASSIGNMENT (BUY stock, BUY option)", <<>>, idx)

\* the matching records logged during the loop over trades_to_report
RECURSIVE process_trades_log(_, _)
process_trades_log(df, index) ==
    IF index = <<>> THEN <<>>
    ELSE LET idx == Head(index)
         IN  (IF df[idx].AssetClass = "STK" /\ idx \in ExerciseAssignedSet(df)
              THEN <<matching_log(df, idx)>>
              ELSE <<>>)
             \o process_trades_log(df, Tail(index))

(***************************************************************************)
(* result.sort_values('Beteckning'), group_partial_executions              *)
(***************************************************************************)
\* code point of the characters that occur in labels
CharRank(c) ==
    CASE c = " " -> 32 [] c = "B" -> 66 [] c = "C" -> 67 [] c = "P" -> 80
      [] c = "X" -> 88 [] c = "Y" -> 89 [] OTHER -> 127

\* Python's a < b on strings
RECURSIVE StrLess(_, _)
StrLess(a, b) ==
    IF b = <<>> THEN FALSE
    ELSE IF a = <<>> THEN TRUE
    ELSE IF CharRank(Head(a)) # CharRank(Head(b))
         THEN CharRank(Head(a)) < CharRank(Head(b))
         ELSE StrLess(Tail(a), Tail(b))

\* insert row into a frame sorted by Beteckning, after the rows that are
\* not greater (the sort of a frame of fewer than 17 rows is an insertion
\* sort, hence stable)
RECURSIVE InsertSorted(_, _)
InsertSorted(sorted, row) ==
    IF sorted = <<>> THEN <<row>>
    ELSE IF StrLess(row.Beteckning, Head(sorted).Beteckning)
         THEN <<row>> \o sorted
         ELSE <<Head(sorted)>> \o InsertSorted(Tail(sorted), row)

RECURSIVE SortByBeteckning(_)
SortByBeteckning(df) ==
    IF df = <<>> THEN <<>>
    ELSE InsertSorted(SortByBeteckning(SubSeq(df, 1, Len(df) - 1)), df[Len(df)])

\* fault: the side is left out of the key of a partial execution
GroupKeyMutant(df, i) ==
    IF Contains(df[i].NotesCodes, CodeP)
    THEN <<"partial", "", df[i].TradeDate, df[i].Beteckning>>
    ELSE <<"single", "", i, <<>> >>

\* grouped_df['GroupKey'] of row i: partial executions share a key per
\* side, trade date and label, every other row has a key of its own
GroupKey(df, i) ==
    IF Contains(df[i].NotesCodes, CodeP)
    THEN <<"partial", df[i].BuySell, df[i].TradeDate, df[i].Beteckning>>
    ELSE <<"single", "", i, <<>> >>

\* the rows of df with the given key, in order
GroupRows(df, key) == AscSeq({i \in DOMAIN df : GroupKey(df, i) = key})

\* multi_entry_groups: the keys that occur more than once, by descending
\* count (value_counts), keys of equal count by first occurrence
RECURSIVE KeysWithCount(_, _, _)
KeysWithCount(df, keys, c) ==
    IF c < 2 THEN <<>>
    ELSE SelectSeq(keys, LAMBDA k : Len(GroupRows(df, k)) = c)
         \o KeysWithCount(df, keys, c - 1)

multi_entry_groups(df) ==
    KeysWithCount(df, Unique([i \in DOMAIN df |-> GroupKey(df, i)]), Len(df))

RECURSIVE SumField(_, _, _)
SumField(df, idx, field) ==
    IF idx = <<>> THEN 0
    ELSE df[Head(idx)][field] + SumField(df, Tail(idx), field)

\* fault: the loss column is taken from the first row instead of summed
combined_row_mutant(df, key) ==
    LET group == GroupRows(df, key)
        first == df[group[1]]
    IN  [f \in DOMAIN first \cup {"GroupInfo"} |->
            IF f = "GroupInfo" THEN Len(group)
            ELSE IF f \in {"Antal", "Forsaljningspris", "Omkostnadsbelopp",
                           "Vinst", "IBKRPnL", "DiffVsIBKR"}
                 THEN SumField(df, group, f)
                 ELSE first[f]]

\* combined_row of one group: the first row with the seven fields summed
combined_row(df, key) ==
    LET group == GroupRows(df, key)
        first == df[group[1]]
    IN  [f \in DOMAIN first \cup {"GroupInfo"} |->
            IF f = "GroupInfo" THEN Len(group)
            ELSE IF f \in {"Antal", "Forsaljningspris", "Omkostnadsbelopp",
                           "Vinst", "Forlust", "IBKRPnL", "DiffVsIBKR"}
                 THEN SumField(df, group, f)
                 ELSE first[f]]

\* fault: the rows of a merged group are kept next to their combined row
group_partial_executions_mutant(processed_df) ==
    IF \A i \in DOMAIN processed_df : ~Contains(processed_df[i].NotesCodes, CodeP)
    THEN processed_df
    ELSE LET multi == multi_entry_groups(processed_df)
         IN  IF multi = <<>>
             THEN processed_df
             ELSE [k \in DOMAIN processed_df |->
                      processed_df[k] @@ [GroupInfo |-> 0]]
                  \o [k \in DOMAIN multi |-> combined_row(processed_df, multi[k])]

\* GroupInfo is the number of rows merged ("Grouped n partial executions"),
\* 0 where the column is NaN
group_partial_executions(processed_df) ==
    IF \A i \in DOMAIN processed_df : ~Contains(processed_df[i].NotesCodes, CodeP)
    THEN processed_df
    ELSE LET multi == multi_entry_groups(processed_df)
             non_grouped ==
                 AscSeq({i \in DOMAIN processed_df :
                            GroupKey(processed_df, i) \notin Range(multi)})
         IN  IF multi = <<>>
             THEN processed_df
             ELSE [k \in DOMAIN non_grouped |->
                      processed_df[non_grouped[k]] @@ [GroupInfo |-> 0]]
                  \o [k \in DOMAIN multi |-> combined_row(processed_df, multi[k])]

(***************************************************************************)
(* Input tables                                                            *)
(***************************************************************************)
\* all tables of at most MaxTrades rows drawn from Rows
Tables(Rows) == UNION {[1..n -> Rows] : n \in 0..MaxTrades}

\* the 14 columns load_trades requires
required_cols ==
    {"DateTime", "Open/CloseIndicator", "FifoPnlRealized", "Description",
     "Quantity", "CostBasis", "Proceeds", "CurrencyPrimary", "Buy/Sell",
     "Notes/Codes", "AssetClass", "Symbol", "UnderlyingSymbol", "IBCommission"}

\* DEFAULT_CONFIG['fx_rates'], doubled: USD 10.5, CHF 12.2 (not a multiple of
\* 0.5, left out), SEK 1.0, EUR 10.0
DefaultRates == [USD |-> 21, SEK |-> 2, EUR |-> 20]

SekRates == [SEK |-> 2]

\* the contract symbol of an option; only compared for equality
OptionSymbol(sym, right) ==
    CASE sym = "X" /\ right = "C" -> "X C"
      [] sym = "X" /\ right = "P" -> "X P"
      [] sym = "Y" /\ right = "C" -> "Y C"
      [] OTHER -> "Y P"

StockRow(sym, date, side, code, oc, pnl, money) ==
    [TradeDate |-> date, AssetClass |-> "STK", BuySell |-> side,
     NotesCodes |-> code, Description |-> StockDesc(sym), Symbol |-> sym,
     UnderlyingSymbol |-> sym, OpenCloseIndicator |-> oc,
     FifoPnlRealized |-> pnl,
     Quantity |-> IF side = "SELL" THEN -10 ELSE 10,
     CostBasis |-> money.CostBasis, Proceeds |-> money.Proceeds,
     IBCommission |-> money.IBCommission, CurrencyPrimary |-> "SEK"]

OptionRow(sym, right, date, side, code, oc, pnl, money) ==
    [TradeDate |-> date, AssetClass |-> "OPT", BuySell |-> side,
     NotesCodes |-> code, Description |-> OptionDesc(sym, right),
     Symbol |-> OptionSymbol(sym, right),
     UnderlyingSymbol |-> sym, OpenCloseIndicator |-> oc,
     FifoPnlRealized |-> pnl,
     Quantity |-> IF side = "SELL" THEN -1 ELSE 1,
     CostBasis |-> money.CostBasis, Proceeds |-> money.Proceeds,
     IBCommission |-> money.IBCommission, CurrencyPrimary |-> "SEK"]

Money(proceeds, cost_basis, commission) ==
    [Proceeds |-> proceeds, CostBasis |-> cost_basis, IBCommission |-> commission]

StockMoney ==
    {Money(15000, -12000, 0), Money(-5000, -20, -10), Money(-700, 900, -10)}

\* option legs: <<underlying, trade date, cost basis>>
Legs == {<<"X", 1, -500>>, <<"X", 1, 300>>, <<"Y", 1, -70>>, <<"X", 2, -90>>}

\* Rows for the classification formulas: closing trades with a realized PnL.
\* Stock trades of X on day 1 (standard, exercise, assignment, and one row
\* whose side is neither BUY nor SELL); option legs on X or Y, day 1 or 2.
ClassifyRawRows ==
    {StockRow("X", 1, side, code, "C", 40, m) :
        side \in {"BUY", "SELL"}, code \in {CodeNone, CodeEx, CodeA},
        m \in StockMoney}
    \cup {StockRow("X", 1, "BUY (Ca.)", CodeEx, "C", 40, Money(-5000, -20, -10)),
          StockRow("X", 1, "BUY", CodeAEx, "C", 40, Money(-5000, -20, -10)),
          StockRow("X", 1, "SELL", CodeAEx, "C", 40, Money(15000, -12000, 0))}
    \cup {OptionRow(leg[1], right, leg[2], side, code, "C", 40, Money(0, leg[3], 0)) :
        leg \in Legs, right \in {"C", "P"},
        side \in {"BUY", "SELL"}, code \in {CodeEx, CodeA}}
    \cup {OptionRow("X", "C", 1, side, CodeNone, "C", 40, Money(800, -500, -2)) :
        side \in {"BUY", "SELL"}}

ClassifyRows == {ConvertRow(r, SekRates[r.CurrencyPrimary]) : r \in ClassifyRawRows}

\* Rows for the selection formula: every combination of asset class, code,
\* open/close indicator and realized PnL.
SelectRawRows ==
    {StockRow("X", 1, "SELL", code, oc, pnl, Money(15000, -12000, 0)) :
        code \in {CodeNone, CodeEx, CodeA, CodeEp, CodeP},
        oc \in {"O", "C"}, pnl \in {0, 40, -40}}
    \cup {OptionRow("X", "C", 1, "SELL", code, oc, pnl, Money(800, -500, -2)) :
        code \in {CodeNone, CodeEx, CodeA, CodeEp, CodeP},
        oc \in {"O", "C"}, pnl \in {0, 40, -40}}

SelectRows == {ConvertRow(r, SekRates[r.CurrencyPrimary]) : r \in SelectRawRows}

(***************************************************************************)
(* main(): process_trades step                                             *)
(***************************************************************************)
\* line 534: result = process_trades(trades_sek); the frame passed in gets
\* the Antal and Beteckning columns (lines 377-378 assign in place)
ProcessTrades ==
    /\ pc = "converted"
    /\ trades_sek' = WithReportColumns(trades_sek)
    /\ trades_to_report' = ReportIndex(trades_sek')
    /\ result' = process_trades(trades_sek)
    /\ log' = log \o process_trades_log(trades_sek', trades_to_report')
    /\ pc' = "processed"
    /\ UNCHANGED <<info_lines, sru_lines, columns, config, no_sru,
                   input_file, trades, grouped_result,
                   files, error>>

\* the fields validate_sru_config requires of the personal section, in the
\* order it looks for them
personal_fields ==
    <<"personnummer", "namn", "postnummer", "adress", "postort", "email",
      "inkomstar">>

\* a configuration with an fx_rates section and a complete personal section
ValidConfig(rates) ==
    [has_fx_rates |-> TRUE, fx_rates |-> rates,
     has_personal |-> TRUE, personal |-> Range(personal_fields)]

\* the rows of a converted table as load_trades returned them: without the
\* columns convert_to_sek adds (the rate being 1.0, CostBasis and Proceeds
\* are the raw values)
RawOf(df) ==
    [i \in DOMAIN df |->
        [f \in DOMAIN df[i] \ {"FX", "Commission", "IBKRPnL"} |-> df[i][f]]]

\* the state of main() after convert_to_sek returned the table df
Converted(df) ==
    /\ pc = "converted"
    /\ columns = required_cols
    /\ config = ValidConfig(SekRates)
    /\ no_sru = FALSE
    /\ input_file = RawOf(df)
    /\ trades = RawOf(df)
    /\ trades_sek = df
    /\ trades_to_report = <<>>
    /\ result = NoTable
    /\ grouped_result = NoTable
    /\ files = {}
    /\ info_lines = <<>>
    /\ sru_lines = <<>>
    /\ log = <<>>
    /\ error = NoError

InitClassify == \E df \in Tables(ClassifyRows) : Converted(df)

NextClassify == ProcessTrades

\* process_trades over tables of classification rows
SpecClassify == InitClassify /\ [][NextClassify]_vars

InitSelect == \E df \in Tables(SelectRows) : Converted(df)

NextSelect == ProcessTrades

\* process_trades over tables of selection rows
SpecSelect == InitSelect /\ [][NextSelect]_vars

\* Rows for the matching formulas: the four kinds of delivery of X on day
\* 1, and option legs on X of either right that close by exercise (sold)
\* or by assignment (bought), with a negative or a positive cost basis, on
\* day 1 and (calls only) on day 2.
MatchRawRows ==
    {StockRow("X", 1, dl[1], dl[2], "C", 40, Money(-5000, -20, -10)) :
        dl \in {<<"BUY", CodeEx>>, <<"SELL", CodeEx>>,
                <<"SELL", CodeA>>, <<"BUY", CodeA>>}}
    \cup {OptionRow("X", right, 1, sc[1], sc[2], "C", 40, Money(0, cb, 0)) :
        right \in {"C", "P"}, sc \in {<<"SELL", CodeEx>>, <<"BUY", CodeA>>},
        cb \in {-500, 300}}
    \cup {OptionRow("X", "C", 2, sc[1], sc[2], "C", 40, Money(0, -90, 0)) :
        sc \in {<<"SELL", CodeEx>>, <<"BUY", CodeA>>}}

MatchRows == {ConvertRow(r, SekRates[r.CurrencyPrimary]) : r \in MatchRawRows}

InitMatch ==
    \E df \in UNION {[1..n -> MatchRows] : n \in 0..MaxLegTrades} : Converted(df)

NextMatch == ProcessTrades

\* process_trades over tables where a delivery meets several option legs
\* and a leg meets several deliveries
SpecMatch == InitMatch /\ [][NextMatch]_vars

(***************************************************************************)
(* main(): the other steps                                                 *)
(***************************************************************************)
\* fault: len(missing_cols) == 1 is not checked
load_ok_mutant(cols) ==
    LET missing_cols == required_cols \ cols
    IN  missing_cols = {} \/ "IBCommission" \in missing_cols

\* load_trades returns a table: no column is missing, or IBCommission alone
\* (a missing DateTime or Quantity column raises inside the try block, which
\* returns None as well)
load_ok(cols) ==
    LET missing_cols == required_cols \ cols
    IN  \/ missing_cols = {}
        \/ Cardinality(missing_cols) = 1 /\ "IBCommission" \in missing_cols

\* lines 528-530: trades = load_trades(...); if trades is None: return
LoadTrades ==
    /\ pc = "start"
    /\ IF load_ok(columns)
       THEN /\ trades' = IF "IBCommission" \in columns THEN input_file
                         ELSE [i \in DOMAIN input_file |->
                                  [input_file[i] EXCEPT !.IBCommission = 0]]
            /\ pc' = "loaded"
            /\ error' = error
       ELSE /\ trades' = trades
            /\ pc' = "aborted"
            /\ error' = [kind |-> "MissingColumns", detail |-> <<>>]
    /\ UNCHANGED <<log, info_lines, sru_lines, columns, config, no_sru,
                   input_file, trades_sek,
                   trades_to_report, result, grouped_result, files>>

\* line 532: trades_sek = convert_to_sek(trades, config['fx_rates']); an
\* exception is caught by main's handler (lines 581-584), which logs it
ConvertToSek ==
    /\ pc = "loaded"
    /\ IF ~config.has_fx_rates
       THEN /\ pc' = "aborted"
            /\ error' = [kind |-> "KeyError", detail |-> <<"fx_rates">>]
            /\ trades_sek' = trades_sek
       ELSE IF missing_fx(trades, config.fx_rates) # <<>>
       THEN /\ pc' = "aborted"
            /\ error' = [kind |-> "ValueError",
                         detail |-> missing_fx(trades, config.fx_rates)]
            /\ trades_sek' = trades_sek
       ELSE /\ pc' = "converted"
            /\ error' = error
            /\ trades_sek' = convert_to_sek(trades, config.fx_rates)
    /\ UNCHANGED <<log, info_lines, sru_lines, columns, config, no_sru,
                   input_file, trades,
                   trades_to_report, result, grouped_result, files>>

\* lines 544-548: sort by label, group; an empty result frame has no
\* columns, so sort_values('Beteckning') raises KeyError
SortAndGroup ==
    /\ pc = "processed"
    /\ IF result = <<>>
       THEN /\ pc' = "aborted"
            /\ error' = [kind |-> "KeyError", detail |-> <<"Beteckning">>]
            /\ UNCHANGED <<result, grouped_result>>
       ELSE /\ pc' = "grouped"
            /\ result' = SortByBeteckning(result)
            /\ grouped_result' = group_partial_executions(result')
            /\ error' = error
    /\ UNCHANGED <<log, info_lines, sru_lines, columns, config, no_sru,
                   input_file, trades, trades_sek,
                   trades_to_report, files>>

\* line 559: result.to_csv(output_file)
WriteReport ==
    /\ pc = "grouped"
    /\ files' = files \cup {"k4.csv"}
    /\ pc' = "report_written"
    /\ UNCHANGED <<log, info_lines, sru_lines, columns, config, no_sru,
                   input_file, trades, trades_sek,
                   trades_to_report, result, grouped_result, error>>

\* line 571: grouped_result.to_csv(grouped_output_file)
WriteGroupedReport ==
    /\ pc = "report_written"
    /\ files' = files \cup {"k4_grouped.csv"}
    /\ pc' = "grouped_written"
    /\ UNCHANGED <<log, info_lines, sru_lines, columns, config, no_sru,
                   input_file, trades, trades_sek,
                   trades_to_report, result, grouped_result, error>>

\* the first field of the list that the personal section lacks, "" if it
\* has them all (the loops and the subscripts below stop at the first one)
RECURSIVE first_missing(_, _)
first_missing(fields, personal) ==
    IF fields = <<>> THEN ""
    ELSE IF Head(fields) \notin personal THEN Head(fields)
    ELSE first_missing(Tail(fields), personal)

validate_sru_config_mutant(cfg) ==
    cfg.has_personal
        /\ first_missing(SubSeq(personal_fields, 1, 6), cfg.personal) = ""

\* validate_sru_config
validate_sru_config(cfg) ==
    cfg.has_personal /\ first_missing(personal_fields, cfg.personal) = ""

\* the records validate_sru_config passes to the logger: it returns at the
\* first missing field (the warning about the format of the personnummer
\* depends on the field's value, which the configuration here does not keep)
validate_sru_config_log(cfg) ==
    IF ~cfg.has_personal
    THEN <<LogRecord("ERROR", "Configuration missing 'personal' section", <<>>, 0)>>
    ELSE IF first_missing(personal_fields, cfg.personal) # ""
    THEN <<LogRecord("ERROR", "Missing required field in personal config",
                     <<first_missing(personal_fields, cfg.personal)>>, 0)>>
    ELSE <<>>

\* the keys generate_info_sru_file reads, in the order it reads them
info_keys ==
    <<"personnummer", "namn", "adress", "postnummer", "postort", "email">>

\* the key whose subscript raises KeyError in generate_info_sru_file, ""
\* if none does
missing_info_key(cfg) ==
    IF ~cfg.has_personal THEN "personal"
    ELSE first_missing(info_keys, cfg.personal)

\* generate_info_sru_file reads these keys of config['personal'] before it
\* opens INFO.SRU; a missing one raises KeyError
info_fields_present(cfg) == missing_info_key(cfg) = ""

(***************************************************************************)
(* sru_generator.py                                                        *)
(***************************************************************************)
MAX_TRADES_PER_SECTION_A == 9

MAX_TRADES_PER_SECTION_D == 7

SECTION_D_INSTRUMENTS == {"BITW", "BTC", "ETH", "GBTC", "ETHE", "SOL", "DOT", "ADA"}

TEST_LIMIT == 2000

\* a line that consists of a keyword and values of the personal section or
\* the clock, which the model does not follow
Line(kw) == [kw |-> kw, tag |-> 0, num |-> 0, text |-> <<>>]

\* "#UPPGIFT <tag> <value>"; the value is a number (num) or, for the label
\* tag, a text
format_sru_line(tag, num, text) ==
    [kw |-> "#UPPGIFT", tag |-> tag, num |-> num, text |-> text]

\* the tag f"{prefix}{i}{field}", read as a decimal number
Tag(prefix, i, field) ==
    (IF i < 10 THEN prefix * 10 + i ELSE prefix * 100 + i) * 10 + field

\* fault: the filer-identity block is written before the file description
generate_info_sru_file_mutant ==
    <<Line("#MEDIELEV_START"), Line("#ORGNR"),
      Line("#NAMN"), Line("#ADRESS"), Line("#POSTNR"), Line("#POSTORT"),
      Line("#EMAIL"), Line("#MEDIELEV_SLUT"),
      Line("#DATABESKRIVNING_START"), Line("#PRODUKT"), Line("#FILNAMN"),
      Line("#DATABESKRIVNING_SLUT")>>

\* the twelve lines of INFO.SRU
generate_info_sru_file ==
    <<Line("#DATABESKRIVNING_START"), Line("#PRODUKT"), Line("#FILNAMN"),
      Line("#DATABESKRIVNING_SLUT"), Line("#MEDIELEV_START"), Line("#ORGNR"),
      Line("#NAMN"), Line("#ADRESS"), Line("#POSTNR"), Line("#POSTORT"),
      Line("#EMAIL"), Line("#MEDIELEV_SLUT")>>

\* data[mask] for the section D mask (d = TRUE) or its complement
section_data(result_data, d) ==
    SelectSeq(result_data, LAMBDA row : (row.Symbol \in SECTION_D_INSTRUMENTS) = d)

\* fault: one more page than the whole pages, also when no row is left
num_blanketts_extra_mutant(total_section_a, total_section_d) ==
    LET num_blanketts_a == total_section_a \div MAX_TRADES_PER_SECTION_A + 1
        num_blanketts_d == total_section_d \div MAX_TRADES_PER_SECTION_D + 1
    IN  Max(Max(num_blanketts_a, num_blanketts_d), 1)

\* (total + max - 1) // max for both sections, at least 1
num_blanketts(total_section_a, total_section_d) ==
    LET num_blanketts_a ==
            (total_section_a + MAX_TRADES_PER_SECTION_A - 1) \div MAX_TRADES_PER_SECTION_A
        num_blanketts_d ==
            (total_section_d + MAX_TRADES_PER_SECTION_D - 1) \div MAX_TRADES_PER_SECTION_D
    IN  Max(Max(num_blanketts_a, num_blanketts_d), 1)

\* data.iloc[start:end] if start < total else an empty frame
blankett_section(data, blankett_index, max_trades) ==
    LET total == Len(data)
        start == blankett_index * max_trades
        end   == Min((blankett_index + 1) * max_trades, total)
    IN  IF start < total THEN SubSeq(data, start + 1, end) ELSE <<>>

\* frame[field].sum()
ColumnSum(frame, field) == SumField(frame, [k \in DOMAIN frame |-> k], field)

\* fault: a long label is cut one character short
row_lines_mutant(prefix, i, row) ==
    LET beteckning == IF Len(row.Beteckning) > 80
                      THEN SubSeq(row.Beteckning, 1, 79)
                      ELSE row.Beteckning
    IN  <<format_sru_line(Tag(prefix, i, 0), row.Antal, <<>>),
          format_sru_line(Tag(prefix, i, 1), 0, beteckning),
          format_sru_line(Tag(prefix, i, 2), row.Forsaljningspris, <<>>),
          format_sru_line(Tag(prefix, i, 3), row.Omkostnadsbelopp, <<>>),
          format_sru_line(Tag(prefix, i, 4), row.Vinst, <<>>),
          format_sru_line(Tag(prefix, i, 5), row.Forlust, <<>>)>>

\* the six tags of one row; i is the index written into the tag
row_lines(prefix, i, row) ==
    LET beteckning == IF Len(row.Beteckning) > 80
                      THEN SubSeq(row.Beteckning, 1, 80)
                      ELSE row.Beteckning
    IN  <<format_sru_line(Tag(prefix, i, 0), row.Antal, <<>>),
          format_sru_line(Tag(prefix, i, 1), 0, beteckning),
          format_sru_line(Tag(prefix, i, 2), row.Forsaljningspris, <<>>),
          format_sru_line(Tag(prefix, i, 3), row.Omkostnadsbelopp, <<>>),
          format_sru_line(Tag(prefix, i, 4), row.Vinst, <<>>),
          format_sru_line(Tag(prefix, i, 5), row.Forlust, <<>>)>>

\* fault: the enumeration index is used as it is in both sections
RECURSIVE rows_lines_mutant(_, _, _)
rows_lines_mutant(prefix, offset, section) ==
    IF section = <<>> THEN <<>>
    ELSE rows_lines_mutant(prefix, offset, SubSeq(section, 1, Len(section) - 1))
         \o row_lines(prefix, Len(section) - 1, section[Len(section)])

\* the loop over enumerate(section.iterrows()); offset is added to the
\* enumeration index (0 in section A, 1 in section D)
RECURSIVE rows_lines(_, _, _)
rows_lines(prefix, offset, section) ==
    IF section = <<>> THEN <<>>
    ELSE rows_lines(prefix, offset, SubSeq(section, 1, Len(section) - 1))
         \o row_lines(prefix, Len(section) - 1 + offset, section[Len(section)])

\* fault: the gain and loss subtotals are swapped
subtotal_lines_mutant(section, tags) ==
    <<format_sru_line(tags[1], ColumnSum(section, "Forsaljningspris"), <<>>),
      format_sru_line(tags[2], ColumnSum(section, "Omkostnadsbelopp"), <<>>),
      format_sru_line(tags[3], ColumnSum(section, "Forlust"), <<>>),
      format_sru_line(tags[4], ColumnSum(section, "Vinst"), <<>>)>>

\* the four subtotal tags of a section of one blankett
subtotal_lines(section, tags) ==
    <<format_sru_line(tags[1], ColumnSum(section, "Forsaljningspris"), <<>>),
      format_sru_line(tags[2], ColumnSum(section, "Omkostnadsbelopp"), <<>>),
      format_sru_line(tags[3], ColumnSum(section, "Vinst"), <<>>),
      format_sru_line(tags[4], ColumnSum(section, "Forlust"), <<>>)>>

\* lines 121-143: section A of one blankett
section_a_lines(blankett_section_a) ==
    IF blankett_section_a = <<>> THEN <<>>
    ELSE rows_lines(31, 0, blankett_section_a)
         \o subtotal_lines(blankett_section_a, <<3300, 3301, 3304, 3305>>)

\* lines 150-172: section D of one blankett
section_d_lines(blankett_section_d) ==
    IF blankett_section_d = <<>> THEN <<>>
    ELSE rows_lines(34, 1, blankett_section_d)
         \o subtotal_lines(blankett_section_d, <<3500, 3501, 3503, 3504>>)

\* fault: the sequence tag carries the 0-based blankett index
RECURSIVE blankett_loop_mutant(_, _, _, _, _)
blankett_loop_mutant(section_a_data, section_d_data, count, blankett_index, lines) ==
    IF blankett_index >= count THEN lines
    ELSE LET blankett_section_a ==
                 blankett_section(section_a_data, blankett_index,
                                  MAX_TRADES_PER_SECTION_A)
             blankett_section_d ==
                 blankett_section(section_d_data, blankett_index,
                                  MAX_TRADES_PER_SECTION_D)
             has_data == blankett_section_a # <<>> \/ blankett_section_d # <<>>
             body == lines \o <<Line("#BLANKETT"), Line("#IDENTITET")>>
                     \o section_a_lines(blankett_section_a)
                     \o section_d_lines(blankett_section_d)
             after == IF has_data \/ blankett_index = 0
                      THEN body \o <<format_sru_line(7014, blankett_index, <<>>),
                                     Line("#BLANKETTSLUT")>>
                      ELSE SubSeq(body, 1, Len(body) - 2)
         IN  blankett_loop_mutant(section_a_data, section_d_data, count,
                                  blankett_index + 1, after)

\* lines 110-180: sru_lines after the iterations blankett_index, ...,
\* count - 1 of the loop, given sru_lines before them
RECURSIVE blankett_loop(_, _, _, _, _)
blankett_loop(section_a_data, section_d_data, count, blankett_index, lines) ==
    IF blankett_index >= count THEN lines
    ELSE LET blankett_section_a ==
                 blankett_section(section_a_data, blankett_index,
                                  MAX_TRADES_PER_SECTION_A)
             blankett_section_d ==
                 blankett_section(section_d_data, blankett_index,
                                  MAX_TRADES_PER_SECTION_D)
             has_data == blankett_section_a # <<>> \/ blankett_section_d # <<>>
             body == lines \o <<Line("#BLANKETT"), Line("#IDENTITET")>>
                     \o section_a_lines(blankett_section_a)
                     \o section_d_lines(blankett_section_d)
             after == IF has_data \/ blankett_index = 0
                      THEN body \o <<format_sru_line(7014, blankett_index + 1, <<>>),
                                     Line("#BLANKETTSLUT")>>
                      ELSE SubSeq(body, 1, Len(body) - 2)
         IN  blankett_loop(section_a_data, section_d_data, count,
                           blankett_index + 1, after)

\* the lines the iterations lo, ..., hi - 1 of the loop add to sru_lines.
\* An iteration takes back at most the two lines it appended itself, so what
\* a run of iterations adds does not depend on the lines before it, and the
\* run is evaluated by halves.
RECURSIVE blankett_range(_, _, _, _)
blankett_range(section_a_data, section_d_data, lo, hi) ==
    IF hi <= lo + 1
    THEN blankett_loop(section_a_data, section_d_data, hi, lo, <<>>)
    ELSE LET mid == (lo + hi) \div 2
         IN  blankett_range(section_a_data, section_d_data, lo, mid)
             \o blankett_range(section_a_data, section_d_data, mid, hi)

\* the lines generate_blankett_sru_file writes to BLANKETTER.SRU for a
\* valid configuration
generate_blankett_sru_file(result_data) ==
    LET limited == IF Len(result_data) > TEST_LIMIT
                   THEN SubSeq(result_data, 1, TEST_LIMIT)
                   ELSE result_data
        section_d_data == section_data(limited, TRUE)
        section_a_data == section_data(limited, FALSE)
        count == num_blanketts(Len(section_a_data), Len(section_d_data))
    IN  blankett_range(section_a_data, section_d_data, 0, count)
        \o <<Line("#FIL_SLUT")>>

\* the warning and error records generate_blankett_sru_file logs before it
\* writes anything
generate_blankett_sru_file_log(result_data, cfg) ==
    (IF Len(result_data) > TEST_LIMIT
     THEN <<LogRecord("WARNING", "TESTING MODE: Limiting to 2000 trades for testing purposes",
                      <<>>, 0)>>
     ELSE <<>>)
    \o validate_sru_config_log(cfg)
    \o (IF ~validate_sru_config(cfg)
        THEN <<LogRecord("ERROR", "Invalid SRU configuration. SRU file generation aborted.",
                         <<>>, 0)>>
        ELSE <<>>)

\* lines 575-577: generate_sru_files(grouped_result, config, output_dir):
\* INFO.SRU first, then BLANKETTER.SRU unless the configuration is invalid.
\* A KeyError of generate_info_sru_file ends the run in main's handler.
GenerateSruFiles ==
    /\ pc = "grouped_written"
    /\ ~no_sru
    /\ IF ~info_fields_present(config)
       THEN /\ pc' = "aborted"
            /\ error' = [kind |-> "KeyError", detail |-> <<missing_info_key(config)>>]
            /\ UNCHANGED <<files, info_lines, sru_lines, log>>
       ELSE IF ~validate_sru_config(config)
       THEN /\ pc' = "done"
            /\ error' = [kind |-> "InvalidSruConfig", detail |-> <<>>]
            /\ files' = files \cup {"INFO.SRU"}
            /\ info_lines' = generate_info_sru_file
            /\ sru_lines' = sru_lines
            /\ log' = log \o generate_blankett_sru_file_log(grouped_result, config)
       ELSE /\ pc' = "done"
            /\ error' = error
            /\ files' = files \cup {"INFO.SRU", "BLANKETTER.SRU"}
            /\ info_lines' = generate_info_sru_file
            /\ sru_lines' = generate_blankett_sru_file(grouped_result)
            /\ log' = log \o generate_blankett_sru_file_log(grouped_result, config)
    /\ UNCHANGED <<columns, config, no_sru, input_file, trades, trades_sek,
                   trades_to_report, result, grouped_result>>

\* generate_blankett_sru_file(result_data, config, output_path) called on its
\* own: it returns before opening the file when the configuration is invalid
GenerateBlankettSruFile ==
    /\ pc = "blankett_call"
    /\ log' = log \o generate_blankett_sru_file_log(grouped_result, config)
    /\ IF validate_sru_config(config)
       THEN /\ files' = files \cup {"BLANKETTER.SRU"}
            /\ sru_lines' = generate_blankett_sru_file(grouped_result)
       ELSE UNCHANGED <<files, sru_lines>>
    /\ pc' = "done"
    /\ UNCHANGED <<info_lines, columns, config, no_sru, input_file, trades,
                   trades_sek, trades_to_report, result, grouped_result, error>>

\* line 579: --no-sru
SkipSru ==
    /\ pc = "grouped_written"
    /\ no_sru
    /\ pc' = "done"
    /\ UNCHANGED <<log, info_lines, sru_lines, columns, config, no_sru,
                   input_file, trades, trades_sek,
                   trades_to_report, result, grouped_result, files, error>>

(***************************************************************************)
(* Specifications                                                          *)
(***************************************************************************)
WithCurrency(row, cur) == [row EXCEPT !.CurrencyPrimary = cur]

\* Rows for the conversion formulas: four currencies (GBP and JPY have no
\* default rate), raw values of both signs whose product with 10.5 is a tie
ConvertRawRows ==
    {WithCurrency(StockRow("X", 1, "SELL", CodeNone, "C", 3, Money(p, cb, c)), cur) :
        cur \in {"SEK", "USD", "GBP", "JPY"},
        p \in {-1, 3}, cb \in {-3, 2}, c \in {-3, 0, 1}}

\* the state of main() after load_trades returned the table df
Loaded(df, cfg) ==
    /\ pc = "loaded"
    /\ columns = required_cols
    /\ config = cfg
    /\ no_sru = FALSE
    /\ input_file = df
    /\ trades = df
    /\ trades_sek = NoTable
    /\ trades_to_report = <<>>
    /\ result = NoTable
    /\ grouped_result = NoTable
    /\ files = {}
    /\ info_lines = <<>>
    /\ sru_lines = <<>>
    /\ log = <<>>
    /\ error = NoError

InitConvert ==
    \E df \in Tables(ConvertRawRows), rates \in {DefaultRates, SekRates} :
        Loaded(df, ValidConfig(rates))

NextConvert == ConvertToSek

\* convert_to_sek over tables of conversion rows
SpecConvert == InitConvert /\ [][NextConvert]_vars

\* Rows for the grouping: closing stock trades of two instruments, both
\* sides, two trade dates, with and without the partial-execution code
GroupRawRows ==
    {StockRow(sym, date, side, code, "C", 40, m) :
        sym \in {"X", "Y"}, date \in {1, 2}, side \in {"BUY", "SELL"},
        code \in {CodeNone, CodeP},
        m \in {Money(15000, -12000, 0), Money(-700, 900, -10)}}

GroupTradeRows == {ConvertRow(r, SekRates[r.CurrencyPrimary]) : r \in GroupRawRows}

\* group_partial_executions applied to the table it returned
Regroup ==
    /\ pc = "grouped"
    /\ grouped_result' = group_partial_executions(grouped_result)
    /\ pc' = "regrouped"
    /\ UNCHANGED <<log, info_lines, sru_lines, columns, config, no_sru,
                   input_file, trades, trades_sek, trades_to_report, result,
                   files, error>>

InitGroup == \E df \in Tables(GroupTradeRows) : Converted(df)

NextGroup ==
    \/ ProcessTrades
    \/ SortAndGroup
    \/ Regroup

\* process_trades, the sort and group_partial_executions (once and twice)
\* over tables of grouping rows
SpecGroup == InitGroup /\ [][NextGroup]_vars

\* Row p of a table passed to the SRU generator: a section D instrument
\* (d = TRUE) or another one; quantity and amounts depend on p, every third
\* row is a loss
SruRow(p, d) ==
    LET proceeds == 100 * p
        cost     == IF p % 3 = 0 THEN 130 * p ELSE 90 * p
    IN  [Symbol |-> IF d THEN (IF p % 2 = 0 THEN "BTC" ELSE "ETHE")
                    ELSE (IF p % 2 = 0 THEN "X" ELSE "btc"),
         Beteckning |-> IF d THEN <<"B", "T", "C">> ELSE <<"X">>,
         Antal |-> p,
         Forsaljningspris |-> proceeds,
         Omkostnadsbelopp |-> cost,
         Vinst |-> Max(0, proceeds - cost),
         Forlust |-> Max(0, cost - proceeds)]

\* whether row p of a table of na section A and nd section D rows is a
\* section D row: A rows first, D rows first, or alternating while both last
IsDesignatedAt(p, na, nd, order) ==
    CASE order = "AD" -> p > na
      [] order = "DA" -> p <= nd
      [] OTHER -> IF p <= 2 * Min(na, nd) THEN p % 2 = 0 ELSE nd > na

SruTable(na, nd, order) ==
    [p \in 1..(na + nd) |-> SruRow(p, IsDesignatedAt(p, na, nd, order))]

SruTables ==
    {SruTable(na, nd, order) :
        na \in 0..MaxStandard, nd \in 0..MaxDesignated,
        order \in {"AD", "DA", "mixed"}}

\* the state in which generate_sru_files(result_data, config, output_dir)
\* is called on its own, as the tests call it
SruCall(result_data, cfg) ==
    /\ pc = "grouped_written"
    /\ columns = required_cols
    /\ config = cfg
    /\ no_sru = FALSE
    /\ input_file = NoTable
    /\ trades = NoTable
    /\ trades_sek = NoTable
    /\ trades_to_report = <<>>
    /\ result = NoTable
    /\ grouped_result = result_data
    /\ files = {}
    /\ info_lines = <<>>
    /\ sru_lines = <<>>
    /\ log = <<>>
    /\ error = NoError

InitSru ==
    \E data \in SruTables, lacking \in {{}, {"inkomstar"}, {"namn"}} :
        SruCall(data, [ValidConfig(SekRates) EXCEPT !.personal = @ \ lacking])

NextSru == GenerateSruFiles

\* generate_sru_files over tables of up to MaxStandard + MaxDesignated rows
SpecSru == InitSru /\ [][NextSru]_vars

\* the state in which generate_blankett_sru_file(result_data, config,
\* output_path) is called on its own, as the tests call it
BlankettCall(result_data, cfg) ==
    /\ pc = "blankett_call"
    /\ columns = required_cols
    /\ config = cfg
    /\ no_sru = FALSE
    /\ input_file = NoTable
    /\ trades = NoTable
    /\ trades_sek = NoTable
    /\ trades_to_report = <<>>
    /\ result = NoTable
    /\ grouped_result = result_data
    /\ files = {}
    /\ info_lines = <<>>
    /\ sru_lines = <<>>
    /\ log = <<>>
    /\ error = NoError

\* configurations without a personal section, or with any subset of the
\* fields in it
PersonalConfigs ==
    {[ValidConfig(SekRates) EXCEPT !.personal = present] :
        present \in SUBSET Range(personal_fields)}
    \cup {[ValidConfig(SekRates) EXCEPT !.has_personal = FALSE, !.personal = {}]}

InitConfig ==
    \E na \in 0..MaxConfigRows, nd \in 0..MaxConfigRows, cfg \in PersonalConfigs :
        BlankettCall(SruTable(na, nd, "AD"), cfg)

NextConfig == GenerateBlankettSruFile

\* generate_blankett_sru_file over every shape of the personal section
SpecConfig == InitConfig /\ [][NextConfig]_vars

\* a label of n characters: the digits 1, 2, ..., 9, 0, 1, ...
Label(n) ==
    [i \in 1..n |-> <<"0", "1", "2", "3", "4", "5", "6", "7", "8", "9">>[(i % 10) + 1]]

\* label lengths below, at and above the limit of 80 characters
LabelLengths == {1, 79, 80, 81, MaxLabel}

\* rows of either section with a label of each length
LabelRows ==
    {[SruRow(n, d) EXCEPT !.Beteckning = Label(n)] :
        n \in LabelLengths, d \in BOOLEAN}

InitLabel ==
    \E data \in Tables(LabelRows) : BlankettCall(data, ValidConfig(SekRates))

NextLabel == GenerateBlankettSruFile

\* generate_blankett_sru_file over rows with short and long labels
SpecLabel == InitLabel /\ [][NextLabel]_vars

\* tables of about TEST_LIMIT rows: one row fewer, as many, or up to
\* MaxOverLimit rows more, the last MaxLimitDesignated of them at most in
\* section D
LimitTables ==
    {SruTable(n - nd, nd, "AD") :
        n \in (TEST_LIMIT - 1)..(TEST_LIMIT + MaxOverLimit),
        nd \in 0..MaxLimitDesignated}

InitLimit ==
    \E data \in LimitTables : BlankettCall(data, ValidConfig(SekRates))

NextLimit == GenerateBlankettSruFile

\* generate_blankett_sru_file over tables of about TEST_LIMIT rows
SpecLimit == InitLimit /\ [][NextLimit]_vars

\* Rows of whole runs: two partial fills of one sale, an exercise delivery
\* in USD with its option leg, a sale in GBP, and an opening trade
MainRawRows ==
    {StockRow("X", 1, "SELL", CodeP, "C", 40, Money(15000, -12000, 0)),
     StockRow("X", 1, "SELL", CodeP, "C", 40, Money(-700, 900, -10)),
     WithCurrency(StockRow("X", 1, "BUY", CodeEx, "C", 0, Money(-5000, -20, -10)), "USD"),
     WithCurrency(OptionRow("X", "C", 1, "SELL", CodeEx, "C", 40, Money(0, -500, 0)), "USD"),
     WithCurrency(StockRow("Y", 1, "SELL", CodeNone, "C", -40, Money(3, -3, 1)), "GBP"),
     StockRow("X", 2, "BUY", CodeNone, "O", 0, Money(-700, 900, -10))}

\* the sets of columns an input file may lack
MissingColumns ==
    {{}, {"IBCommission"}, {"Symbol"}, {"IBCommission", "Symbol"},
     {"DateTime"}, {"Quantity"}}

Configs ==
    {[has_fx_rates |-> TRUE, fx_rates |-> rates,
      has_personal |-> TRUE, personal |-> Range(personal_fields) \ lacking] :
        rates \in {DefaultRates, SekRates},
        lacking \in {{}, {"inkomstar"}, {"namn"}}}
    \cup {[has_fx_rates |-> TRUE, fx_rates |-> DefaultRates,
           has_personal |-> FALSE, personal |-> {}],
          [has_fx_rates |-> FALSE, fx_rates |-> SekRates,
           has_personal |-> TRUE, personal |-> Range(personal_fields)]}

Init ==
    /\ pc = "start"
    /\ columns \in {required_cols \ m : m \in MissingColumns}
    /\ config \in Configs
    /\ no_sru \in BOOLEAN
    /\ input_file \in Tables(MainRawRows)
    /\ trades = NoTable
    /\ trades_sek = NoTable
    /\ trades_to_report = <<>>
    /\ result = NoTable
    /\ grouped_result = NoTable
    /\ files = {}
    /\ info_lines = <<>>
    /\ sru_lines = <<>>
    /\ log = <<>>
    /\ error = NoError

Next ==
    \/ LoadTrades
    \/ ConvertToSek
    \/ ProcessTrades
    \/ SortAndGroup
    \/ WriteReport
    \/ WriteGroupedReport
    \/ GenerateSruFiles
    \/ SkipSru

\* one run of main() on an existing input file
Spec == Init /\ [][Next]_vars

(***************************************************************************)
(* Properties of process_trades                                            *)
(***************************************************************************)
Processed == pc = "processed"

\* the input row behind result line k
SourceRow(k) == trades_sek[trades_to_report[k]]

\* a stock row whose code field carries the exercise or the assignment code
IsDelivery(row) ==
    /\ row.AssetClass = "STK"
    /\ Contains(row.NotesCodes, CodeEx) \/ Contains(row.NotesCodes, CodeA)

\* an option row whose code field carries the exercise or the assignment code
IsExercisedOption(row) ==
    /\ row.AssetClass = "OPT"
    /\ Contains(row.NotesCodes, CodeEx) \/ Contains(row.NotesCodes, CodeA)

\* C1: every result line has gain - loss = proceeds - cost and
\* min(gain, loss) = 0, whichever formula produced it and whatever the signs.
C1_GainLossInvariant ==
    Processed =>
        \A k \in DOMAIN result :
            /\ result[k].Vinst - result[k].Forlust
                   = result[k].Forsaljningspris - result[k].Omkostnadsbelopp
            /\ Min(result[k].Vinst, result[k].Forlust) = 0

\* a loss line with negative sale proceeds, computed by an exercise handler
\* from a matched option leg
C1_Witness ==
    /\ Processed
    /\ \E k \in DOMAIN result :
           /\ result[k].Forsaljningspris < 0
           /\ result[k].Forlust > 0
           /\ IsDelivery(SourceRow(k))
           /\ SelectedLeg(SourceRow(k), trades_sek, ExerciseAssignedSet(trades_sek)) # 0

\* the trades the claim calls reportable
C2_Reportable(df, i) ==
    /\ df[i].OpenCloseIndicator = "C"
    /\ df[i].IBKRPnL # 0 \/ IsDelivery(df[i])
    /\ ~IsExercisedOption(df[i])

C3_StandardFormula ==
    Processed =>
        \A k \in DOMAIN result :
            LET row == SourceRow(k) IN
            ~IsDelivery(row) =>
                /\ row.BuySell = "SELL" =>
                       /\ result[k].Forsaljningspris = row.Proceeds
                       /\ result[k].Omkostnadsbelopp =
                              Abs(row.CostBasis) + row.Commission
                /\ row.BuySell # "SELL" =>
                       /\ result[k].Forsaljningspris = Abs(row.CostBasis)
                       /\ result[k].Omkostnadsbelopp =
                              Abs(row.Proceeds) + row.Commission
                /\ (/\ row.BuySell = "SELL" /\ row.Proceeds = 15000
                    /\ row.CostBasis = -12000 /\ row.Commission = 0) =>
                       result[k].Vinst = 3000 /\ result[k].Forlust = 0

\* the scenario sell next to a standard buy with a commission
C3_Witness ==
    /\ Processed
    /\ \E k \in DOMAIN result :
           /\ ~IsDelivery(SourceRow(k)) /\ SourceRow(k).BuySell = "SELL"
           /\ SourceRow(k).Proceeds = 15000 /\ SourceRow(k).CostBasis = -12000
           /\ result[k].Vinst = 3000
    /\ \E k \in DOMAIN result :
           /\ ~IsDelivery(SourceRow(k)) /\ SourceRow(k).BuySell = "BUY"
           /\ SourceRow(k).Commission > 0

\* the option legs of the table that pair with a stock delivery as the
\* claims describe them: same trade date, given side, code and right
PairedLegs(df, row, side, code, put) ==
    {i \in DOMAIN df : /\ df[i].AssetClass = "OPT"
                       /\ df[i].TradeDate = row.TradeDate
                       /\ df[i].BuySell = side
                       /\ Contains(df[i].NotesCodes, code)
                       /\ is_put_option(df[i].Description) = put}

\* C4: an exercise stock delivery with a sold option leg carrying the
\* exercise code: BUY (long call) gives proceeds = own CostBasis and
\* cost = |Proceeds| + |option CostBasis| + Commission; SELL (long put) gives
\* proceeds = Proceeds and cost = |CostBasis| + |option CostBasis| + Commission.
C4_ExerciseFormula ==
    Processed =>
        \A k \in DOMAIN result :
            LET row   == SourceRow(k)
                calls == PairedLegs(trades_sek, row, "SELL", CodeEx, FALSE)
                puts  == PairedLegs(trades_sek, row, "SELL", CodeEx, TRUE)
            IN
            (IsDelivery(row) /\ Contains(row.NotesCodes, CodeEx)) =>
                /\ (row.BuySell = "BUY" /\ calls # {}) =>
                       /\ result[k].Forsaljningspris = row.CostBasis
                       /\ \E leg \in calls :
                              result[k].Omkostnadsbelopp =
                                  Abs(row.Proceeds)
                                  + Abs(trades_sek[leg].CostBasis) + row.Commission
                /\ (row.BuySell = "SELL" /\ puts # {}) =>
                       /\ result[k].Forsaljningspris = row.Proceeds
                       /\ \E leg \in puts :
                              result[k].Omkostnadsbelopp =
                                  Abs(row.CostBasis)
                                  + Abs(trades_sek[leg].CostBasis) + row.Commission

\* the spec's scenario: stock proceeds -5000, option cost basis -500,
\* commission 10, cost 5510
C4_Witness ==
    /\ Processed
    /\ \E k \in DOMAIN result :
           /\ SourceRow(k).BuySell = "BUY"
           /\ Contains(SourceRow(k).NotesCodes, CodeEx)
           /\ SourceRow(k).Proceeds = -5000 /\ SourceRow(k).Commission = 10
           /\ \E leg \in PairedLegs(trades_sek, SourceRow(k), "SELL", CodeEx, FALSE) :
                  trades_sek[leg].CostBasis = -500
           /\ result[k].Omkostnadsbelopp = 5510

C6_LegSameDateAndUnderlying ==
    Processed =>
        \A k \in DOMAIN result :
            LET row == SourceRow(k)
                leg == SelectedLeg(row, trades_sek, ExerciseAssignedSet(trades_sek))
            IN
            (IsDelivery(row) /\ leg # 0) =>
                /\ trades_sek[leg].TradeDate = row.TradeDate
                /\ trades_sek[leg].UnderlyingSymbol = row.Symbol

\* C7: an exercise/assignment stock delivery without a matching option leg
\* (or with a side/code pattern that is none of the four) gets the result
\* of the standard-trade formula, on both sides.
C7_FallbackIsStandard ==
    Processed =>
        \A k \in DOMAIN result :
            LET row == SourceRow(k)
                leg == SelectedLeg(row, trades_sek, ExerciseAssignedSet(trades_sek))
                std == process_standard_trade(row)
            IN
            (IsDelivery(row) /\ leg = 0) =>
                /\ result[k].Forsaljningspris = std.Forsaljningspris
                /\ result[k].Omkostnadsbelopp = std.Omkostnadsbelopp

(***************************************************************************)
(* Properties of convert_to_sek and of main()                              *)
(***************************************************************************)
\* the currencies of table df without a rate in the configuration cfg
CurrenciesWithoutRate(df, cfg) ==
    {df[i].CurrencyPrimary : i \in DOMAIN df}
        \ (IF cfg.has_fx_rates THEN DOMAIN cfg.fx_rates ELSE {})

\* C8: when a currency of the table has no rate, convert_to_sek fails with
\* one error that lists every distinct missing currency once, and no
\* converted table exists; otherwise it returns the table.
C8_MissingRatesAbort ==
    pc # "loaded" =>
        LET missing == CurrenciesWithoutRate(trades, config) IN
        /\ missing # {} =>
               /\ pc = "aborted"
               /\ error.kind = "ValueError"
               /\ Range(error.detail) = missing
               /\ Len(error.detail) = Cardinality(missing)
               /\ trades_sek = NoTable
        /\ missing = {} =>
               /\ pc = "converted"
               /\ error = NoError
               /\ Len(trades_sek) = Len(trades)

\* a failure whose error names two distinct missing currencies
C8_Witness ==
    /\ pc = "aborted"
    /\ error.kind = "ValueError"
    /\ Len(error.detail) = 2
    /\ trades_sek = NoTable

\* c is n/2 rounded to the nearest integer, ties to even
IsRounded(c, n) ==
    /\ Abs(2 * c - n) <= 1
    /\ Abs(2 * c - n) = 1 => c % 2 = 0

\* C9 as stated: commission, cost basis and proceeds are each stored as
\* round(abs(value) * rate), hence non-negative.
C9_ConvertedAbsolute ==
    pc = "converted" =>
        \A i \in DOMAIN trades_sek :
            LET fx == config.fx_rates[trades[i].CurrencyPrimary] IN
            /\ IsRounded(trades_sek[i].Commission, Abs(trades[i].IBCommission) * fx)
            /\ IsRounded(trades_sek[i].CostBasis, Abs(trades[i].CostBasis) * fx)
            /\ IsRounded(trades_sek[i].Proceeds, Abs(trades[i].Proceeds) * fx)
            /\ trades_sek[i].Commission >= 0
            /\ trades_sek[i].CostBasis >= 0
            /\ trades_sek[i].Proceeds >= 0

\* C9 (amended): commission is stored as round(abs(value) * rate), a
\* non-negative integer; cost basis and proceeds are stored as
\* round(value * rate) and keep the sign of the raw value.
C9_ConvertedSigned ==
    pc = "converted" =>
        \A i \in DOMAIN trades_sek :
            LET fx == config.fx_rates[trades[i].CurrencyPrimary] IN
            /\ IsRounded(trades_sek[i].Commission, Abs(trades[i].IBCommission) * fx)
            /\ trades_sek[i].Commission >= 0
            /\ IsRounded(trades_sek[i].CostBasis, trades[i].CostBasis * fx)
            /\ IsRounded(trades_sek[i].Proceeds, trades[i].Proceeds * fx)
            /\ trades[i].CostBasis < 0 => trades_sek[i].CostBasis < 0
            /\ trades[i].Proceeds < 0 => trades_sek[i].Proceeds < 0

\* a USD row (rate 10.5) with cost basis -3 and commission -3: -31.5 is
\* stored as -32, the commission as 32
C9_Witness ==
    /\ pc = "converted"
    /\ \E i \in DOMAIN trades_sek :
           /\ trades[i].CurrencyPrimary = "USD"
           /\ trades[i].CostBasis = -3 /\ trades_sek[i].CostBasis = -32
           /\ trades[i].IBCommission = -3 /\ trades_sek[i].Commission = 32

\* the input file lacks a required column other than IBCommission alone
LacksRequiredColumn ==
    required_cols \ columns \notin {{}, {"IBCommission"}}

\* C10: when the input lacks a required column (other than the commission
\* alone) or a trade's currency has no FX rate, the run never gets past
\* conversion and no output file is ever written.
C10_AbortBeforeOutput ==
    (LacksRequiredColumn \/ CurrenciesWithoutRate(input_file, config) # {}) =>
        /\ files = {}
        /\ pc \in {"start", "loaded", "aborted"}

\* a run whose file lacks only IBCommission, is loaded, and aborts on a
\* missing rate with no file written
C10_Witness ==
    /\ pc = "aborted"
    /\ "IBCommission" \notin columns
    /\ ~LacksRequiredColumn
    /\ config.has_fx_rates
    /\ CurrenciesWithoutRate(input_file, config) # {}
    /\ error.kind = "ValueError"
    /\ files = {}

(***************************************************************************)
(* Properties of whole runs                                                *)
(***************************************************************************)
\* the run of main() has ended
RunEnded == pc \in {"done", "aborted"}

\* C11: at the end of a run with filing generation enabled, either the
\* tabular reports and the filing file all exist (the filing complete, ending
\* with its file terminator) and no error was reported, or an error was
\* reported and no output file exists.
C11_AllOrNothing ==
    (RunEnded /\ ~no_sru) =>
        \/ /\ error = NoError
           /\ {"k4.csv", "k4_grouped.csv", "BLANKETTER.SRU"} \subseteq files
           /\ sru_lines # <<>>
           /\ sru_lines[Len(sru_lines)].kw = "#FIL_SLUT"
        \/ /\ error # NoError
           /\ files = {}

(***************************************************************************)
(* Properties of group_partial_executions                                  *)
(***************************************************************************)
Grouped == pc = "grouped"

\* the fields the aggregation sums that the claims name
SummedFields == {"Antal", "Forsaljningspris", "Omkostnadsbelopp", "Vinst", "Forlust"}

\* the code field marks the row as a partial execution
IsPartial(row) == Contains(row.NotesCodes, CodeP)

\* the number of classified rows an aggregated row stands for
MergedCount(g) ==
    IF "GroupInfo" \in DOMAIN g /\ g.GroupInfo > 0 THEN g.GroupInfo ELSE 1

SameSideDateLabel(a, b) ==
    /\ a.BuySell = b.BuySell
    /\ a.TradeDate = b.TradeDate
    /\ a.Beteckning = b.Beteckning

\* the classified rows that share side, trade date and label with row and
\* are partial executions like it
Partials(df, row) ==
    {i \in DOMAIN df : IsPartial(df[i]) /\ SameSideDateLabel(df[i], row)}

\* a row without the annotation column
WithoutGroupInfo(g) == [f \in DOMAIN g \ {"GroupInfo"} |-> g[f]]

RECURSIVE SumOfSet(_, _, _)
SumOfSet(df, S, field) ==
    IF S = {} THEN 0
    ELSE LET i == CHOOSE x \in S : TRUE
         IN  df[i][field] + SumOfSet(df, S \ {i}, field)

\* C12 as stated: in the aggregated table every instrument label occurs at
\* most once, whatever the rows' side, trade date or code field.
C12_LabelsUnique ==
    Grouped =>
        \A i, j \in DOMAIN grouped_result :
            i # j => grouped_result[i].Beteckning # grouped_result[j].Beteckning

\* C12 (amended): the aggregated table has one row per combination of side,
\* trade date and label among the rows marked as partial executions, and
\* every row not so marked passes through on its own.
C12_PartialsMergedByKey ==
    Grouped =>
        /\ \A i, j \in DOMAIN grouped_result :
               (/\ i # j
                /\ IsPartial(grouped_result[i])
                /\ IsPartial(grouped_result[j])) =>
                   ~SameSideDateLabel(grouped_result[i], grouped_result[j])
        /\ \A i \in DOMAIN result :
               IsPartial(result[i]) =>
                   \E k \in DOMAIN grouped_result :
                       /\ IsPartial(grouped_result[k])
                       /\ SameSideDateLabel(grouped_result[k], result[i])
                       /\ MergedCount(grouped_result[k])
                              = Cardinality(Partials(result, result[i]))
        /\ \A k \in DOMAIN grouped_result :
               ~IsPartial(grouped_result[k]) => MergedCount(grouped_result[k]) = 1
        /\ Cardinality({k \in DOMAIN grouped_result : ~IsPartial(grouped_result[k])})
               = Cardinality({i \in DOMAIN result : ~IsPartial(result[i])})

\* two partial executions of one sale merged into one row
C12_Witness ==
    /\ Grouped
    /\ Len(result) = 2
    /\ IsPartial(result[1]) /\ IsPartial(result[2])
    /\ SameSideDateLabel(result[1], result[2])
    /\ Len(grouped_result) = 1
    /\ grouped_result[1].GroupInfo = 2

\* the classified rows merged into the aggregated row g: the partial
\* executions of g's side, trade date and label when g stands for several
\* rows
MergedRows(g) ==
    IF MergedCount(g) > 1 THEN Partials(result, g) ELSE {}

\* the classified rows that are passed through on their own
PassedThrough ==
    {i \in DOMAIN result :
        ~IsPartial(result[i]) \/ Cardinality(Partials(result, result[i])) = 1}

\* C13: every aggregated row that stands for several classified rows has
\* quantity, proceeds, cost, gain and loss equal to the sums over those rows;
\* every other classified row passes through unchanged, exactly once; hence
\* the column totals of the aggregated table equal those of the classified
\* table and the merged counts add up to the number of classified rows.
C13_SumsPreserved ==
    Grouped =>
        /\ \A k \in DOMAIN grouped_result :
               LET g == grouped_result[k] IN
               MergedCount(g) > 1 =>
                   /\ Cardinality(MergedRows(g)) = MergedCount(g)
                   /\ \A f \in SummedFields : g[f] = SumOfSet(result, MergedRows(g), f)
        /\ \A i \in PassedThrough :
               Cardinality({k \in DOMAIN grouped_result :
                               /\ MergedCount(grouped_result[k]) = 1
                               /\ WithoutGroupInfo(grouped_result[k]) = result[i]})
                   = Cardinality({j \in PassedThrough : result[j] = result[i]})
        /\ \A f \in SummedFields :
               ColumnSum(grouped_result, f) = ColumnSum(result, f)
        /\ SumOfSet([k \in DOMAIN grouped_result |->
                        [n |-> MergedCount(grouped_result[k])]],
                    DOMAIN grouped_result, "n") = Len(result)

\* two partial executions, one a gain and one a loss, merged into a row
\* that carries both sums
C13_Witness ==
    /\ Grouped
    /\ Len(result) = 2
    /\ Len(grouped_result) = 1
    /\ grouped_result[1].GroupInfo = 2
    /\ result[1].Vinst > 0 /\ result[2].Forlust > 0
    /\ grouped_result[1].Vinst = result[1].Vinst
    /\ grouped_result[1].Forlust = result[2].Forlust
    /\ grouped_result[1].Antal = 20

\* C14: applying group_partial_executions to its own output returns the
\* same rows with the same field values.
C14_Idempotent ==
    [][(pc = "grouped" /\ pc' = "regrouped") => grouped_result' = grouped_result]_vars

\* the second application ran on a table that holds a merged row, which
\* still carries the partial-execution code
C14_Witness ==
    /\ pc = "regrouped"
    /\ Len(result) = 2
    /\ Len(grouped_result) = 1
    /\ grouped_result[1].GroupInfo = 2
    /\ IsPartial(grouped_result[1])

(***************************************************************************)
(* Properties of the SRU files                                             *)
(***************************************************************************)
\* BLANKETTER.SRU has been written
FilingWritten == pc = "done" /\ "BLANKETTER.SRU" \in files

\* the rows of the table outside and inside the allow-list, in table order
StandardRows ==
    SelectSeq(grouped_result, LAMBDA r : r.Symbol \notin SECTION_D_INSTRUMENTS)

DesignatedRows ==
    SelectSeq(grouped_result, LAMBDA r : r.Symbol \in SECTION_D_INSTRUMENTS)

\* the least n with n * b >= a
Ceil(a, b) == CHOOSE n \in 0..a : n * b >= a /\ \A m \in 0..a : m * b >= a => n <= m

ExpectedForms ==
    Max(Max(Ceil(Len(StandardRows), 9), Ceil(Len(DesignatedRows), 7)), 1)

\* positions of the form headers and of the form terminators in the file
HeaderPos ==
    SelectSeq([i \in DOMAIN sru_lines |-> i],
              LAMBDA i : sru_lines[i].kw = "#BLANKETT")

EndPos ==
    SelectSeq([i \in DOMAIN sru_lines |-> i],
              LAMBDA i : sru_lines[i].kw = "#BLANKETTSLUT")

\* the lines of form k (0-based), header and terminator included
FormLines(k) == SubSeq(sru_lines, HeaderPos[k + 1], EndPos[k + 1])

\* the #UPPGIFT lines among lines whose tag lies in lo..hi
TagLines(lines, lo, hi) ==
    SelectSeq(lines, LAMBDA l : l.kw = "#UPPGIFT" /\ l.tag >= lo /\ l.tag <= hi)

\* C15: the filing holds max(ceil(countStandard/9), ceil(countDesignated/7), 1)
\* form blocks; for an empty table that is one form without row tags and
\* without subtotal tags.
C15_FormCount ==
    FilingWritten =>
        /\ Len(HeaderPos) = ExpectedForms
        /\ Len(EndPos) = ExpectedForms
        /\ grouped_result = <<>> =>
               /\ Len(HeaderPos) = 1
               /\ TagLines(sru_lines, 3100, 3599) = <<>>

\* the quantities (tag ending in 0) of the rows rendered among lines with a
\* row tag in lo..hi, in file order
RenderedAntal(lines, lo, hi) ==
    LET rows == SelectSeq(TagLines(lines, lo, hi), LAMBDA l : l.tag % 10 = 0)
    IN  [j \in DOMAIN rows |-> rows[j].num]

\* the quantities of the rows of section at 0-based positions
\* cap * k .. min(cap * k + cap - 1, Len(section) - 1)
ExpectedAntal(section, k, cap) ==
    LET n == Max(0, Min(cap, Len(section) - cap * k))
    IN  [j \in 1..n |-> section[cap * k + j].Antal]

\* C16: form k renders exactly the standard rows at section positions
\* 9k .. min(9k+8, countStandard-1) and the designated rows at positions
\* 7k .. min(7k+6, countDesignated-1), in section order, hence at most 9 and
\* 7 rows; ten standard and ten designated rows give two forms with 9+7 and
\* 1+3 rows.
C16_FormSlices ==
    FilingWritten =>
        /\ Len(HeaderPos) = Len(EndPos)
        /\ \A k \in 0..(Len(HeaderPos) - 1) :
               /\ RenderedAntal(FormLines(k), 3100, 3299)
                      = ExpectedAntal(StandardRows, k, 9)
               /\ RenderedAntal(FormLines(k), 3400, 3499)
                      = ExpectedAntal(DesignatedRows, k, 7)
               /\ Len(RenderedAntal(FormLines(k), 3100, 3299)) <= 9
               /\ Len(RenderedAntal(FormLines(k), 3400, 3499)) <= 7
        /\ (Len(StandardRows) = 10 /\ Len(DesignatedRows) = 10) =>
               /\ Len(HeaderPos) = 2
               /\ Len(RenderedAntal(FormLines(0), 3100, 3299)) = 9
               /\ Len(RenderedAntal(FormLines(0), 3400, 3499)) = 7
               /\ Len(RenderedAntal(FormLines(1), 3100, 3299)) = 1
               /\ Len(RenderedAntal(FormLines(1), 3400, 3499)) = 3

\* the tags of the j-th row (0-based) of a section whose first row has
\* index first: <prefix><first + j><0..5>
ExpectedRowTags(prefix, first, n) ==
    [m \in 1..(6 * n) |-> prefix * 100 + 10 * (first + ((m - 1) \div 6)) + ((m - 1) % 6)]

TagsOf(lines) == [j \in DOMAIN lines |-> lines[j].tag]

\* C17: within every form the j-th standard row (j = 0, 1, ..) carries the
\* tags 31j0..31j5 and the j-th designated row the tags 34(j+1)0..34(j+1)5;
\* the tags lie in 3100..3185 and 3410..3475, the index restarts on every
\* form, and no two lines of one form share a tag.
C17_TagIndices ==
    FilingWritten =>
        /\ Len(HeaderPos) = Len(EndPos)
        /\ \A k \in 0..(Len(HeaderPos) - 1) :
               LET form == FormLines(k)
                   a    == TagLines(form, 3100, 3299)
                   d    == TagLines(form, 3400, 3499)
                   all  == TagLines(form, 0, 99999)
               IN  /\ Len(a) % 6 = 0
                   /\ Len(d) % 6 = 0
                   /\ TagsOf(a) = ExpectedRowTags(31, 0, Len(a) \div 6)
                   /\ TagsOf(d) = ExpectedRowTags(34, 1, Len(d) \div 6)
                   /\ \A l \in Range(a) : l.tag >= 3100 /\ l.tag <= 3185
                   /\ \A l \in Range(d) : l.tag >= 3410 /\ l.tag <= 3475
                   /\ \A i, j \in DOMAIN all : i # j => all[i].tag # all[j].tag

\* two forms: the first is full (tags 3185 and 3475 occur), the second
\* starts again at 3100 and 3410
C17_Witness ==
    /\ FilingWritten
    /\ Len(HeaderPos) = 2
    /\ \E l \in Range(FormLines(0)) : l.tag = 3185
    /\ \E l \in Range(FormLines(0)) : l.tag = 3475
    /\ \E l \in Range(FormLines(1)) : l.tag = 3100
    /\ \E l \in Range(FormLines(1)) : l.tag = 3410

\* the 1-based positions in section of the rows that belong on form k
OnForm(section, k, cap) ==
    {p \in DOMAIN section : p > cap * k /\ p <= cap * (k + 1)}

\* the four subtotal lines a section shows on form k
ExpectedSubtotals(section, k, cap, tags) ==
    LET on == OnForm(section, k, cap)
    IN  <<[tag |-> tags[1], num |-> SumOfSet(section, on, "Forsaljningspris")],
          [tag |-> tags[2], num |-> SumOfSet(section, on, "Omkostnadsbelopp")],
          [tag |-> tags[3], num |-> SumOfSet(section, on, "Vinst")],
          [tag |-> tags[4], num |-> SumOfSet(section, on, "Forlust")]>>

TagAndNum(lines) == [j \in DOMAIN lines |-> [tag |-> lines[j].tag, num |-> lines[j].num]]

\* C18: on every form a section with at least one row on that form shows,
\* right after its rows, its four subtotal tags (3300/3301/3304/3305 or
\* 3500/3501/3503/3504) with the sums of proceeds, cost, gain and loss over
\* the rows of that form only; a section without a row on the form shows
\* neither row tags nor subtotal tags there.
C18_Subtotals ==
    FilingWritten =>
        /\ Len(HeaderPos) = Len(EndPos)
        /\ \A k \in 0..(Len(HeaderPos) - 1) :
               LET form == FormLines(k)
                   a    == TagLines(form, 3100, 3399)
                   d    == TagLines(form, 3400, 3599)
                   na   == Cardinality(OnForm(StandardRows, k, 9))
                   nd   == Cardinality(OnForm(DesignatedRows, k, 7))
               IN  /\ SubSeq(form, 3, Len(form) - 2) = a \o d
                   /\ na = 0 => a = <<>>
                   /\ nd = 0 => d = <<>>
                   /\ na > 0 =>
                          /\ Len(a) = 6 * na + 4
                          /\ TagAndNum(SubSeq(a, 6 * na + 1, 6 * na + 4))
                                 = ExpectedSubtotals(StandardRows, k, 9,
                                                     <<3300, 3301, 3304, 3305>>)
                   /\ nd > 0 =>
                          /\ Len(d) = 6 * nd + 4
                          /\ TagAndNum(SubSeq(d, 6 * nd + 1, 6 * nd + 4))
                                 = ExpectedSubtotals(DesignatedRows, k, 7,
                                                     <<3500, 3501, 3503, 3504>>)

\* a second form with one standard row and no designated row: its standard
\* subtotals are that row's amounts, not the section's, and it shows no
\* designated tag
C18_Witness ==
    /\ FilingWritten
    /\ Len(StandardRows) = 10
    /\ Len(DesignatedRows) = 7
    /\ Len(HeaderPos) = 2
    /\ TagLines(FormLines(1), 3400, 3599) = <<>>
    /\ \E l \in Range(FormLines(1)) :
           l.tag = 3300 /\ l.num = StandardRows[10].Forsaljningspris
    /\ \E l \in Range(FormLines(0)) : l.tag = 3504 /\ l.num > 0

\* C19: the filing is a sequence of form blocks followed by one file
\* terminator, its last line; each block is header line, identity line, row
\* and subtotal tag lines, sequence tag 7014, form terminator, in that order,
\* and the sequence numbers of successive forms are 1, 2, 3, ...
C19_WellFormed ==
    FilingWritten =>
        LET n == Len(HeaderPos) IN
        /\ n >= 1
        /\ Len(EndPos) = n
        /\ HeaderPos[1] = 1
        /\ \A k \in 1..n :
               /\ HeaderPos[k] + 3 <= EndPos[k]
               /\ k > 1 => HeaderPos[k] = EndPos[k - 1] + 1
               /\ sru_lines[HeaderPos[k] + 1].kw = "#IDENTITET"
               /\ \A i \in (HeaderPos[k] + 2)..(EndPos[k] - 2) :
                      /\ sru_lines[i].kw = "#UPPGIFT"
                      /\ sru_lines[i].tag >= 3100 /\ sru_lines[i].tag <= 3599
               /\ sru_lines[EndPos[k] - 1].kw = "#UPPGIFT"
               /\ sru_lines[EndPos[k] - 1].tag = 7014
               /\ sru_lines[EndPos[k] - 1].num = k
        /\ Len(sru_lines) = EndPos[n] + 1
        /\ sru_lines[Len(sru_lines)].kw = "#FIL_SLUT"
        /\ Cardinality({i \in DOMAIN sru_lines : sru_lines[i].kw = "#FIL_SLUT"}) = 1

\* a filing of three forms numbered 1, 2, 3
C19_Witness ==
    /\ FilingWritten
    /\ Len(HeaderPos) = 3
    /\ sru_lines[EndPos[1] - 1].num = 1
    /\ sru_lines[EndPos[2] - 1].num = 2
    /\ sru_lines[EndPos[3] - 1].num = 3
    /\ sru_lines[EndPos[3] - 1].tag = 7014
    /\ sru_lines[Len(sru_lines)].kw = "#FIL_SLUT"

\* the keywords of the lines of a file
Keywords(lines) == [j \in DOMAIN lines |-> lines[j].kw]

\* C20 as stated: the filing file holds, in order, a file-description
\* block, a filer-identity block, one or more form blocks and the file
\* terminator line.
C20_OneFileAllBlocks ==
    FilingWritten =>
        /\ Len(sru_lines) >= 3
        /\ sru_lines[1].kw = "#DATABESKRIVNING_START"
        /\ \E i, j \in DOMAIN sru_lines :
               /\ i < j
               /\ sru_lines[i].kw = "#DATABESKRIVNING_SLUT"
               /\ sru_lines[i + 1].kw = "#MEDIELEV_START"
               /\ sru_lines[j].kw = "#MEDIELEV_SLUT"
               /\ sru_lines[j + 1].kw = "#BLANKETT"
        /\ sru_lines[Len(sru_lines)].kw = "#FIL_SLUT"

\* C20 (amended): the filing is two files. INFO.SRU holds, in order, the
\* file-description block and the filer-identity block; BLANKETTER.SRU,
\* written only after INFO.SRU, holds one or more form blocks followed by
\* the file terminator line and neither of the two other blocks.
C20_TwoFiles ==
    /\ "INFO.SRU" \in files =>
           Keywords(info_lines) =
               <<"#DATABESKRIVNING_START", "#PRODUKT", "#FILNAMN",
                 "#DATABESKRIVNING_SLUT", "#MEDIELEV_START", "#ORGNR", "#NAMN",
                 "#ADRESS", "#POSTNR", "#POSTORT", "#EMAIL", "#MEDIELEV_SLUT">>
    /\ "INFO.SRU" \notin files => info_lines = <<>>
    /\ "BLANKETTER.SRU" \in files =>
           /\ "INFO.SRU" \in files
           /\ sru_lines[1].kw = "#BLANKETT"
           /\ \E i \in DOMAIN sru_lines : sru_lines[i].kw = "#BLANKETTSLUT"
           /\ sru_lines[Len(sru_lines)].kw = "#FIL_SLUT"
           /\ \A i \in DOMAIN sru_lines :
                  sru_lines[i].kw \in {"#BLANKETT", "#IDENTITET", "#UPPGIFT",
                                       "#BLANKETTSLUT", "#FIL_SLUT"}
    /\ "BLANKETTER.SRU" \notin files => sru_lines = <<>>

\* both files written, the form file holding two forms
C20_Witness ==
    /\ FilingWritten
    /\ "INFO.SRU" \in files
    /\ Len(info_lines) = 12
    /\ Len(HeaderPos) = 2
    /\ sru_lines[1].kw = "#BLANKETT"

(***************************************************************************)
(* C23: matching degradations and the log                                  *)
(***************************************************************************)
\* the index labels of the reported stock deliveries that found no paired
\* option leg and were computed with the fallback formula
FallbackDeliveries ==
    {idx \in Range(trades_to_report) :
        /\ trades_sek[idx].AssetClass = "STK"
        /\ idx \in ExerciseAssignedSet(trades_sek)
        /\ SelectedLeg(trades_sek[idx], trades_sek,
                       ExerciseAssignedSet(trades_sek)) = 0}

\* C23: whenever an exercise/assignment stock delivery finds no paired
\* option leg and is computed with the fallback formula, the run logs a
\* record of level WARNING (or above) for that row.
C23_FallbackWarned ==
    pc = "processed" =>
        \A idx \in FallbackDeliveries :
            \E k \in DOMAIN log :
                /\ log[k].row = idx
                /\ log[k].level \in {"WARNING", "ERROR", "CRITICAL"}

(***************************************************************************)
(* C22, C24: the personal section of the configuration                     *)
(***************************************************************************)
\* the seven fields the filing needs
SevenFields ==
    {"personnummer", "namn", "postnummer", "adress", "postort", "email",
     "inkomstar"}

CompletePersonal == config.has_personal /\ SevenFields \subseteq config.personal

\* the filing file was produced by the call
BlankettWritten == "BLANKETTER.SRU" \in files /\ sru_lines # <<>>

\* validate_sru_config returned False: the caller logged the abort
ValidationFailed ==
    \E k \in DOMAIN log :
        log[k].msg = "Invalid SRU configuration. SRU file generation aborted."

\* C22: validate_sru_config accepts the configuration exactly when it has
\* a personal section holding all seven fields, and when it does not,
\* generate_blankett_sru_file writes no filing file.
C22_ValidOrNoFile ==
    pc = "done" =>
        /\ ValidationFailed <=> ~CompletePersonal
        /\ ~CompletePersonal => (files = {} /\ sru_lines = <<>>)
        /\ CompletePersonal => BlankettWritten

\* a call with rows to file and only 'inkomstar' missing ended without a
\* file
C22_Witness ==
    /\ pc = "done"
    /\ config.has_personal
    /\ SevenFields \ config.personal = {"inkomstar"}
    /\ grouped_result # <<>>
    /\ files = {}

\* C24: when the personal section lacks several required fields, the
\* errors logged before the filing is generated name every missing field.
C24_EveryMissingFieldNamed ==
    (pc = "done" /\ config.has_personal) =>
        \A f \in SevenFields \ config.personal :
            \E k \in DOMAIN log :
                log[k].level = "ERROR" /\ f \in Range(log[k].detail)

(***************************************************************************)
(* C21: label truncation                                                   *)
(***************************************************************************)
\* the texts of the label tags (tag ending in 1) among the row tags in
\* lo..hi, in file order
RenderedLabels(lo, hi) ==
    LET labels == SelectSeq(TagLines(sru_lines, lo, hi), LAMBDA l : l.tag % 10 = 1)
    IN  [j \in DOMAIN labels |-> labels[j].text]

\* the first min(80, length) characters of the label of each row
ExpectedLabels(section) ==
    [j \in DOMAIN section |->
        LET label == section[j].Beteckning
        IN  [c \in 1..Min(80, Len(label)) |-> label[c]]]

\* C21: in both sections the label tag of a row carries the first
\* min(80, length) characters of the row's label: a label of at most 80
\* characters is written unchanged, a label of 95 is written as exactly its
\* first 80 characters.
C21_LabelTruncated ==
    FilingWritten =>
        /\ RenderedLabels(3100, 3199) = ExpectedLabels(StandardRows)
        /\ RenderedLabels(3400, 3499) = ExpectedLabels(DesignatedRows)
        /\ \A j \in DOMAIN sru_lines : Len(sru_lines[j].text) <= 80

\* a standard row with a label of MaxLabel characters and a designated row with
\* one of 80 were written with 80 characters each
C21_Witness ==
    /\ FilingWritten
    /\ Len(StandardRows) = 1
    /\ Len(DesignatedRows) = 1
    /\ Len(StandardRows[1].Beteckning) = MaxLabel
    /\ Len(DesignatedRows[1].Beteckning) = 80
    /\ Len(RenderedLabels(3100, 3199)[1]) = 80
    /\ RenderedLabels(3400, 3499)[1] = DesignatedRows[1].Beteckning

(***************************************************************************)
(* C25, C27, C28: the option legs and the deliveries                       *)
(***************************************************************************)
\* the option legs that satisfy the pattern of the delivery row: same trade
\* date, and the side, code and right its kind of delivery pairs with
PatternLegs(df, row) ==
    CASE row.BuySell = "BUY" /\ Contains(row.NotesCodes, CodeEx) ->
             PairedLegs(df, row, "SELL", CodeEx, FALSE)
      [] row.BuySell = "SELL" /\ Contains(row.NotesCodes, CodeEx) ->
             PairedLegs(df, row, "SELL", CodeEx, TRUE)
      [] row.BuySell = "SELL" /\ Contains(row.NotesCodes, CodeA) ->
             PairedLegs(df, row, "BUY", CodeA, FALSE)
      [] row.BuySell = "BUY" /\ Contains(row.NotesCodes, CodeA) ->
             PairedLegs(df, row, "BUY", CodeA, TRUE)
      [] OTHER -> {}

\* the lowest position of a non-empty set of positions
FirstOf(S) == CHOOSE m \in S : \A x \in S : m <= x

\* the cost the delivery row gets when the cost basis cb of an option leg
\* is folded into it: added as a magnitude on exercise, subtracted signed
\* on assignment
CostWithLeg(row, cb) ==
    CASE row.BuySell = "BUY" /\ Contains(row.NotesCodes, CodeEx) ->
             Abs(row.Proceeds) + Abs(cb) + row.Commission
      [] row.BuySell = "SELL" /\ Contains(row.NotesCodes, CodeEx) ->
             Abs(row.CostBasis) + Abs(cb) + row.Commission
      [] row.BuySell = "SELL" ->
             Abs(row.CostBasis) - cb + row.Commission
      [] OTHER ->
             Abs(row.Proceeds) - cb + row.Commission

\* C25: when several option legs of the table satisfy a delivery's pattern,
\* the cost basis folded into the delivery's result is that of the first of
\* them in table order.
C25_FirstLegInTableOrder ==
    Processed =>
        \A k \in DOMAIN result :
            LET row  == SourceRow(k)
                legs == PatternLegs(trades_sek, row)
            IN  (IsDelivery(row) /\ legs # {}) =>
                    result[k].Omkostnadsbelopp =
                        CostWithLeg(row, trades_sek[FirstOf(legs)].CostBasis)

\* an assigned short call with two matching legs of different cost basis,
\* the one with the positive cost basis first: the cost is lowered by it
C25_Witness ==
    /\ Processed
    /\ \E k \in DOMAIN result :
           LET row  == SourceRow(k)
               legs == PatternLegs(trades_sek, row)
           IN  /\ IsDelivery(row)
               /\ row.BuySell = "SELL" /\ Contains(row.NotesCodes, CodeA)
               /\ Cardinality(legs) = 2
               /\ trades_sek[FirstOf(legs)].CostBasis = 300
               /\ \E other \in legs : trades_sek[other].CostBasis = -500
               /\ result[k].Omkostnadsbelopp =
                      Abs(row.CostBasis) - 300 + row.Commission

\* the result lines into which the cost basis of the option leg at
\* position leg was folded
FoldedInto(leg) ==
    {k \in DOMAIN result :
        LET row  == SourceRow(k)
            legs == PatternLegs(trades_sek, row)
        IN  /\ IsDelivery(row)
            /\ leg \in legs
            /\ leg = FirstOf(legs)
            /\ result[k].Omkostnadsbelopp =
                   CostWithLeg(row, trades_sek[leg].CostBasis)}

\* C27: the cost basis of each option leg is folded into at most one
\* result line of the run.
C27_LegFoldedOnce ==
    Processed =>
        \A leg \in DOMAIN trades_sek :
            trades_sek[leg].AssetClass = "OPT" =>
                Cardinality(FoldedInto(leg)) <= 1

\* C28: every closing option trade with a non-zero broker PnL has a result
\* line of its own or has its cost basis folded into the result of a stock
\* delivery; in particular an option leg with an exercise or assignment
\* code that no delivery matches is still reported.
C28_NoOptionResultLost ==
    Processed =>
        \A i \in DOMAIN trades_sek :
            (/\ trades_sek[i].AssetClass = "OPT"
             /\ trades_sek[i].OpenCloseIndicator = "C"
             /\ trades_sek[i].IBKRPnL # 0) =>
                \/ i \in Range(trades_to_report)
                \/ FoldedInto(i) # {}

(***************************************************************************)
(* C29: no form without rows                                               *)
(***************************************************************************)
\* the form count generate_blankett_sru_file computes: that of the rows it
\* keeps, the first TEST_LIMIT at most
ComputedForms ==
    LET kept == SubSeq(grouped_result, 1, Min(Len(grouped_result), TEST_LIMIT))
    IN  num_blanketts(
            Len(SelectSeq(kept, LAMBDA r : r.Symbol \notin SECTION_D_INSTRUMENTS)),
            Len(SelectSeq(kept, LAMBDA r : r.Symbol \in SECTION_D_INSTRUMENTS)))

\* C29: for a non-empty table every form index below the computed form
\* count has a row in some section, so no header is taken back: the file
\* holds as many form headers, sequence tags and form terminators as the
\* computed form count.
C29_NoEmptyForm ==
    FilingWritten =>
        /\ Len(HeaderPos) = ComputedForms
        /\ Len(TagLines(sru_lines, 7014, 7014)) = ComputedForms
        /\ Len(EndPos) = ComputedForms
        /\ Len(SelectSeq(sru_lines, LAMBDA l : l.kw = "#IDENTITET")) = ComputedForms
        /\ grouped_result # <<>> =>
               \A k \in 0..(ComputedForms - 1) :
                   \/ TagLines(FormLines(k), 3100, 3199) # <<>>
                   \/ TagLines(FormLines(k), 3400, 3499) # <<>>

\* both sections fill their last form exactly: 18 standard rows and 14
\* designated rows on two forms
C29_Witness ==
    /\ FilingWritten
    /\ Len(StandardRows) = 18
    /\ Len(DesignatedRows) = 14
    /\ Len(HeaderPos) = 2
    /\ Len(TagLines(FormLines(1), 3100, 3199)) = 54
    /\ Len(TagLines(FormLines(1), 3400, 3499)) = 42

(***************************************************************************)
(* C26: every row is rendered once                                         *)
(***************************************************************************)
\* the quantities of the rows of a section, in table order
AntalOf(section) == [j \in DOMAIN section |-> section[j].Antal]

\* C26: every row of the table passed to generate_blankett_sru_file is
\* rendered once, in the designated section iff its symbol is in the
\* allow-list and in the standard section otherwise; no row is dropped or
\* rendered twice, whatever the number of rows.
C26_EveryRowRenderedOnce ==
    FilingWritten =>
        /\ RenderedAntal(sru_lines, 3100, 3199) = AntalOf(StandardRows)
        /\ RenderedAntal(sru_lines, 3400, 3499) = AntalOf(DesignatedRows)

====
